---- MODULE Spec2Model ----
(***************************************************************************)
(* Document extraction of Ctrl-F-on-Steroids: the per-format processors    *)
(* (processor/*.py, data_loader.py), the execution-flow dependency parser  *)
(* and the dispatch of files to processors.                                *)
(*                                                                         *)
(* Text is a sequence of tokens: single characters where the code looks at *)
(* characters (split, strip, replace), whole literals where it only        *)
(* concatenates.  A parsed YAML/JSON value is a tagged record [t, v].      *)
(***************************************************************************)
EXTENDS Integers, Sequences, FiniteSets, TLC

VARIABLES
    file,        \* the file handed to the current process call
    documents,   \* the list the call returned
    log,         \* the warnings the call wrote to the console
    pc,          \* "ready" before the call, "returned" after it
    earlier,     \* an earlier call on the same instances: [file, documents, log]
    flowInput,   \* the argument of _parse_execution_flow
    flowResult,  \* its outcome
    tree,           \* the files under repo_path, in the order os.walk gives them
    index,          \* the place in tree of the file the walk looks at next
    dispatched,     \* the places handed to _load_and_split_documents so far
    all_documents   \* the list load_repository_documents builds

walkVars == <<tree, index, dispatched, all_documents>>

vars == <<file, documents, log, pc, earlier, flowInput, flowResult,
          tree, index, dispatched, all_documents>>

\* no repository walk is under way
NoWalk ==
    /\ tree = <<>>
    /\ index = 1
    /\ dispatched = <<>>
    /\ all_documents = <<>>

(***************************************************************************)
(* Bounds of the model.                                                    *)
(***************************************************************************)
MaxChainLen == 4      \* characters of one chain expression
MaxChains == 2        \* chain expressions of one execution list
MaxDocs == 2          \* sub-documents of one YAML stream
MaxSqlLen == 3        \* tokens of one query script
MaxMdLen == 3         \* tokens of one markup file
MaxFiles == 3         \* files under repo_path
MaxStatements == 2    \* statements of one query script

(***************************************************************************)
(* Python values.                                                          *)
(***************************************************************************)
PyNone == [t |-> "none", v |-> <<>>]
PyStr(s) == [t |-> "str", v |-> s]
PyInt(digits) == [t |-> "int", v |-> digits]
PyList(items) == [t |-> "list", v |-> items]
\* a dict keeps insertion order: a sequence of <<key, value>> pairs, keys distinct
PyDict(pairs) == [t |-> "dict", v |-> pairs]

IsDict(x) == x.t = "dict"
IsList(x) == x.t = "list"
IsStr(x) == x.t = "str"

\* key in d
HasKey(d, k) == \E i \in 1..Len(d.v) : d.v[i][1] = k
\* d.get(k, default)
Get(d, k, default) ==
    IF HasKey(d, k)
    THEN d.v[CHOOSE i \in 1..Len(d.v) : d.v[i][1] = k][2]
    ELSE default

\* str(x) as an f-string renders it
Format(x) ==
    CASE x.t = "str" -> x.v
      [] x.t = "int" -> x.v
      [] x.t = "none" -> <<"None">>
      [] x.t = "list" -> <<"[...]">>
      [] x.t = "dict" -> <<"{...}">>

(***************************************************************************)
(* str.strip, str.split(">>") and ", ".join on token sequences.            *)
(***************************************************************************)
IsSpace(c) == c \in {" ", "\n"}

RECURSIVE LStrip(_)
LStrip(s) == IF s # <<>> /\ IsSpace(Head(s)) THEN LStrip(Tail(s)) ELSE s

RECURSIVE RStrip(_)
RStrip(s) ==
    IF s # <<>> /\ IsSpace(s[Len(s)]) THEN RStrip(SubSeq(s, 1, Len(s) - 1)) ELSE s

Strip(s) == RStrip(LStrip(s))

\* the first index at which ">>" starts, 0 when there is none
FindArrow(s) ==
    LET hits == {i \in 1..(Len(s) - 1) : s[i] = ">" /\ s[i + 1] = ">"}
    IN  IF hits = {} THEN 0 ELSE CHOOSE i \in hits : \A j \in hits : i <= j

RECURSIVE SplitArrow(_)
SplitArrow(s) ==
    LET i == FindArrow(s)
    IN  IF i = 0
        THEN <<s>>
        ELSE <<SubSeq(s, 1, i - 1)>> \o SplitArrow(SubSeq(s, i + 2, Len(s)))

RECURSIVE Join(_, _)
Join(strs, sep) ==
    IF strs = <<>> THEN <<>>
    ELSE IF Len(strs) = 1 THEN strs[1]
    ELSE strs[1] \o sep \o Join(Tail(strs), sep)

(***************************************************************************)
(* YamlProcessor._parse_execution_flow.  An adjacency map is an ordered    *)
(* sequence of <<task, neighbours>> pairs, as dict.setdefault builds it.   *)
(***************************************************************************)
AdjKeys(adj) == {adj[i][1] : i \in 1..Len(adj)}
AdjGet(adj, k) ==
    IF k \in AdjKeys(adj)
    THEN adj[CHOOSE i \in 1..Len(adj) : adj[i][1] = k][2]
    ELSE <<>>

\* a variant that keeps each neighbour once
SetDefaultAppendOnce(adj, k, x) ==
    IF k \in AdjKeys(adj)
    THEN [i \in 1..Len(adj) |->
            IF adj[i][1] = k /\ \A j \in 1..Len(adj[i][2]) : adj[i][2][j] # x
            THEN <<k, Append(adj[i][2], x)>> ELSE adj[i]]
    ELSE Append(adj, <<k, <<x>>>>)

\* adj.setdefault(k, []).append(x)
SetDefaultAppend(adj, k, x) ==
    IF k \in AdjKeys(adj)
    THEN [i \in 1..Len(adj) |->
            IF adj[i][1] = k THEN <<k, Append(adj[i][2], x)>> ELSE adj[i]]
    ELSE Append(adj, <<k, <<x>>>>)

\* the parts of one chain: [p.strip() for p in flow.split(">>")]
ChainParts(flow) ==
    LET raw == SplitArrow(flow) IN [i \in 1..Len(raw) |-> Strip(raw[i])]

\* the edge loop of one chain that records only the downstream direction
RECURSIVE AddEdgesOneWay(_, _, _)
AddEdgesOneWay(deps, parts, i) ==
    IF i > Len(parts) - 1 THEN deps
    ELSE AddEdgesOneWay(
            [upstream |-> deps.upstream,
             downstream |-> SetDefaultAppend(deps.downstream, parts[i], parts[i + 1])],
            parts, i + 1)

\* for i in range(len(parts) - 1): record parts[i] -> parts[i + 1] both ways
RECURSIVE AddEdges(_, _, _)
AddEdges(deps, parts, i) ==
    IF i > Len(parts) - 1 THEN deps
    ELSE AddEdges(
            [upstream |-> SetDefaultAppend(deps.upstream, parts[i + 1], parts[i]),
             downstream |-> SetDefaultAppend(deps.downstream, parts[i], parts[i + 1])],
            parts, i + 1)

EmptyDeps == [upstream |-> <<>>, downstream |-> <<>>]

\* the loop over the chains of the list, from chain k on
RECURSIVE AddFlows(_, _, _)
AddFlows(deps, flows, k) ==
    IF k > Len(flows) THEN deps
    ELSE AddFlows(AddEdges(deps, ChainParts(flows[k].v), 1), flows, k + 1)

\* flow.split raises AttributeError on an element that is not a string
FlowRaises(execution_flow_list) ==
    /\ IsList(execution_flow_list)
    /\ \E k \in 1..Len(execution_flow_list.v) : ~IsStr(execution_flow_list.v[k])

\* the dependencies returned when no element raises
ParseExecutionFlow(execution_flow_list) ==
    IF IsList(execution_flow_list)
    THEN AddFlows(EmptyDeps, execution_flow_list.v, 1)
    ELSE EmptyDeps

(***************************************************************************)
(* processor/yaml_processor.py: the documents of one workflow file.        *)
(* A Document is [page_content, metadata].                                 *)
(***************************************************************************)
Key(word) == PyStr(<<word>>)
EmptyDict == PyDict(<<>>)

\* _create_raw_document
CreateRawDocument(file_path, raw_content) ==
    [page_content |-> raw_content,
     metadata |-> [source |-> file_path, doc_id |-> <<"raw", ":">> \o file_path]]

\* _create_dag_summary_document
CreateDagSummaryDocument(file_path, dag_id, owner, schedule, description) ==
    [page_content |->
        <<"This document describes the DAG configuration with ID '">> \o Format(dag_id)
        \o <<"'. The owner is '">> \o Format(owner)
        \o <<"', it runs on schedule: '">> \o Format(schedule)
        \o <<"', and its description is: '">> \o Format(description) \o <<"'.">>,
     metadata |-> [source |-> file_path,
                   dag_id |-> dag_id,
                   doc_id |-> Format(dag_id) \o <<":", "__DAG_SUMMARY__">>,
                   owner |-> owner]]

RunsAfter == " It runs after the following task(s): "
RunsBefore == " It runs before the following task(s): "

\* task_name in dependencies[...]: a key of the adjacency, which holds strings
InAdj(task_name, adj) == IsStr(task_name) /\ task_name.v \in AdjKeys(adj)

\* the clause written for every task, with whatever the lookup gives
DependencyClauseAlways(task_name, adj, opening) ==
    <<opening>>
    \o Join(IF IsStr(task_name) THEN AdjGet(adj, task_name.v) ELSE <<>>, <<",", " ">>)
    \o <<".">>

\* the clause appended for one direction of the dependencies
DependencyClause(task_name, adj, opening) ==
    IF InAdj(task_name, adj)
    THEN <<opening>> \o Join(AdjGet(adj, task_name.v), <<",", " ">>) \o <<".">>
    ELSE <<>>

\* _create_task_document
CreateTaskDocument(file_path, dag_id, owner, task_name, task_details, dependencies) ==
    LET operator == Get(task_details, Key("operator"), Key("unknown"))
        script == Get(task_details, Key("file"), Key("not specified"))
    IN  [page_content |->
            <<"The DAG '">> \o Format(dag_id) \o <<"' contains a task named '">>
            \o Format(task_name) \o <<"'. This task uses the '">> \o Format(operator)
            \o <<"' operator and runs the script '">> \o Format(script) \o <<"'.">>
            \o DependencyClause(task_name, dependencies.upstream, RunsAfter)
            \o DependencyClause(task_name, dependencies.downstream, RunsBefore),
         metadata |-> [source |-> file_path,
                       dag_id |-> dag_id,
                       task_name |-> task_name,
                       doc_id |-> Format(dag_id) \o <<":">> \o Format(task_name),
                       owner |-> owner,
                       operator |-> operator]]

\* a variant that looks the identifier up by subscript, which raises
\* KeyError on a mapping without it
DagDocRaisesOnMissingKey(doc_content) ==
    LET dag_info == Get(doc_content, Key("dag"), EmptyDict)
        tasks == Get(doc_content, Key("tasks"), EmptyDict)
    IN  \/ ~IsDict(dag_info)
        \/ ~HasKey(dag_info, Key("dag_id"))
        \/ FlowRaises(Get(doc_content, Key("execution"), PyList(<<>>)))
        \/ ~IsDict(Get(dag_info, Key("default_args"), EmptyDict))
        \/ ~IsDict(tasks)
        \/ \E i \in 1..Len(tasks.v) : ~IsDict(tasks.v[i][2])

\* the places of _process_dag_doc that raise AttributeError: .get or .items()
\* on a value that is no mapping, .split on a chain that is no string
DagDocRaises(doc_content) ==
    LET dag_info == Get(doc_content, Key("dag"), EmptyDict)
        tasks == Get(doc_content, Key("tasks"), EmptyDict)
    IN  \/ ~IsDict(dag_info)
        \/ FlowRaises(Get(doc_content, Key("execution"), PyList(<<>>)))
        \/ ~IsDict(Get(dag_info, Key("default_args"), EmptyDict))
        \/ ~IsDict(tasks)
        \/ \E i \in 1..Len(tasks.v) : ~IsDict(tasks.v[i][2])

\* a summary only for a sub-document that has tasks
ProcessDagDocNoBareSummary(doc_content, file_path) ==
    LET dag_info == Get(doc_content, Key("dag"), EmptyDict)
        dag_id == Get(dag_info, Key("dag_id"), Key("N/A"))
        dependencies ==
            ParseExecutionFlow(Get(doc_content, Key("execution"), PyList(<<>>)))
        owner == Get(Get(dag_info, Key("default_args"), EmptyDict), Key("owner"), Key("N/A"))
        schedule == Get(dag_info, Key("schedule_interval"), Key("N/A"))
        description == Get(dag_info, Key("description"), Key("No description provided."))
        tasks == Get(doc_content, Key("tasks"), EmptyDict)
    IN  IF tasks.v = <<>> THEN <<>>
        ELSE <<CreateDagSummaryDocument(file_path, dag_id, owner, schedule, description)>>
             \o [i \in 1..Len(tasks.v) |->
                   CreateTaskDocument(file_path, dag_id, owner, tasks.v[i][1],
                                      tasks.v[i][2], dependencies)]

\* _process_dag_doc when nothing raises: the summary, then one document per
\* entry of tasks in mapping order
ProcessDagDoc(doc_content, file_path) ==
    LET dag_info == Get(doc_content, Key("dag"), EmptyDict)
        dag_id == Get(dag_info, Key("dag_id"), Key("N/A"))
        dependencies ==
            ParseExecutionFlow(Get(doc_content, Key("execution"), PyList(<<>>)))
        owner == Get(Get(dag_info, Key("default_args"), EmptyDict), Key("owner"), Key("N/A"))
        schedule == Get(dag_info, Key("schedule_interval"), Key("N/A"))
        description == Get(dag_info, Key("description"), Key("No description provided."))
        tasks == Get(doc_content, Key("tasks"), EmptyDict)
    IN  <<CreateDagSummaryDocument(file_path, dag_id, owner, schedule, description)>>
        \o [i \in 1..Len(tasks.v) |->
              CreateTaskDocument(file_path, dag_id, owner, tasks.v[i][1], tasks.v[i][2],
                                 dependencies)]

\* isinstance(yaml_doc_content, dict) and "dag" in yaml_doc_content
IsDagDoc(yaml_doc_content) ==
    IsDict(yaml_doc_content) /\ HasKey(yaml_doc_content, Key("dag"))

Warning(message, file_path) == [message |-> message, path |-> file_path]

\* a stream read one sub-document at a time fails only on its first
YamlErrorAtHead(text) == text # <<>> /\ ~text[1].wellformed

\* list(yaml.safe_load_all(f)): every sub-document of the stream is parsed
\* before the first is looked at; one malformed sub-document fails the call
YamlErrorIn(text) == \E i \in 1..Len(text) : ~text[i].wellformed
SafeLoadAll(text) == [i \in 1..Len(text) |-> text[i].value]

\* with open(...) as f: raw_content = f.read(): the exception it raises
ReadRaises(f) ==
    CASE f.access = "open_error" -> "IOError"
      [] f.access = "read_error" -> "IOError"
      [] f.access = "decode_error" -> "UnicodeDecodeError"
      [] OTHER -> "none"

\* except Exception standing first: every failure is an unexpected error
YamlWarningCatchAll(exception, file_path) ==
    Warning("Unexpected error processing YAML file", file_path)

\* the except clauses of process, tried in order
YamlWarning(exception, file_path) ==
    CASE exception = "YAMLError" -> Warning("Invalid YAML format", file_path)
      [] exception = "IOError" -> Warning("Could not read file", file_path)
      [] OTHER -> Warning("Unexpected error processing YAML file", file_path)

\* return [] from the except clause
DroppedOnException(docs) == <<>>

\* an except clause only prints: return documents gives what was built
KeptOnException(docs) == docs

\* a loop that appends to documents as it goes, and so keeps the summary
\* of a sub-document whose tasks raise
RECURSIVE ProcessDocsFromAppendingInPlace(_, _, _, _)
ProcessDocsFromAppendingInPlace(docs, yaml_data_list, k, file_path) ==
    IF k > Len(yaml_data_list)
    THEN [documents |-> docs, log |-> <<>>]
    ELSE IF ~IsDagDoc(yaml_data_list[k])
    THEN ProcessDocsFromAppendingInPlace(docs, yaml_data_list, k + 1, file_path)
    ELSE IF DagDocRaises(yaml_data_list[k])
    THEN LET dag_info == Get(yaml_data_list[k], Key("dag"), EmptyDict)
             default_args == Get(dag_info, Key("default_args"), EmptyDict)
             summary ==
                 CreateDagSummaryDocument(
                     file_path,
                     Get(dag_info, Key("dag_id"), Key("N/A")),
                     Get(default_args, Key("owner"), Key("N/A")),
                     Get(dag_info, Key("schedule_interval"), Key("N/A")),
                     Get(dag_info, Key("description"), Key("No description provided.")))
             summary_built ==
                 /\ IsDict(dag_info)
                 /\ IsDict(default_args)
                 /\ ~FlowRaises(Get(yaml_data_list[k], Key("execution"), PyList(<<>>)))
         IN  [documents |-> IF summary_built THEN Append(docs, summary) ELSE docs,
              log |-> <<YamlWarning("AttributeError", file_path)>>]
    ELSE ProcessDocsFromAppendingInPlace(
            docs \o ProcessDagDoc(yaml_data_list[k], file_path),
            yaml_data_list, k + 1, file_path)

\* the for loop of process from sub-document k on; an exception leaves it
RECURSIVE ProcessDocsFrom(_, _, _, _)
ProcessDocsFrom(docs, yaml_data_list, k, file_path) ==
    IF k > Len(yaml_data_list)
    THEN [documents |-> docs, log |-> <<>>]
    ELSE IF ~IsDagDoc(yaml_data_list[k])
    THEN ProcessDocsFrom(docs, yaml_data_list, k + 1, file_path)
    ELSE IF DagDocRaises(yaml_data_list[k])
    THEN [documents |-> KeptOnException(docs),
          log |-> <<YamlWarning("AttributeError", file_path)>>]
    ELSE ProcessDocsFrom(docs \o ProcessDagDoc(yaml_data_list[k], file_path),
                         yaml_data_list, k + 1, file_path)

\* a list that outlives the call
KeepDocuments(left_by_last_call) == left_by_last_call

\* documents = []: a list of its own for every call
NewDocuments(left_by_last_call) == <<>>

\* YamlProcessor.process
YamlProcess(f, left_by_last_call) ==
    LET documents0 == NewDocuments(left_by_last_call)
        documents1 == Append(documents0, CreateRawDocument(f.path, f.text))
    IN  IF ReadRaises(f) # "none"
        THEN [documents |-> KeptOnException(documents0),
              log |-> <<YamlWarning(ReadRaises(f), f.path)>>]
        ELSE IF YamlErrorIn(f.text)
        THEN [documents |-> KeptOnException(documents1),
              log |-> <<YamlWarning("YAMLError", f.path)>>]
        ELSE ProcessDocsFrom(documents1, SafeLoadAll(f.text), 1, f.path)

(***************************************************************************)
(* processor/sql_processor.py.  The text of a query script is a sequence   *)
(* of tokens: the marker comment, white space and words.  The parser      *)
(* raises on a body it cannot read (the word "bad") and lists the table    *)
(* names of any other body in order of first appearance.                   *)
(***************************************************************************)
TableWords == {"t1", "t2", "t3", "t4"}

\* Parser(sql_for_parsing).tables raises
ParserRaises(body) == \E i \in 1..Len(body) : body[i] = "bad"

\* Parser(sql_for_parsing).tables
ParserTables(body) ==
    LET firsts == {i \in 1..Len(body) :
                    /\ body[i] \in TableWords
                    /\ \A j \in 1..(i - 1) : body[j] # body[i]}
    IN  [k \in 1..Cardinality(firsts) |->
            <<body[CHOOSE i \in firsts : Cardinality({j \in firsts : j < i}) = k - 1]>>]

Marker == "-- Databricks notebook source"

\* f.read().replace("-- Databricks notebook source", "")
RemoveMarker(text) == SelectSeq(text, LAMBDA token : token # Marker)

\* the text as read, untouched
KeepText(text) == text

\* the cleaned text of the raw document
CleanSql(text) == Strip(RemoveMarker(text))

(***************************************************************************)
(* sql_processor.py: the four re.search calls on the cleaned text and the  *)
(* choice of sql_for_parsing.  A text is a sequence of tokens: words,      *)
(* "(", ")", "$$" and single white-space characters; two tokens that       *)
(* stand side by side have nothing between them.                           *)
(***************************************************************************)
\* re.IGNORECASE on the words of the patterns
Lower(token) ==
    CASE token = "CREATE" -> "create"
      [] token = "AS" -> "as"
      [] token = "VIEW" -> "view"
      [] token = "UNLOAD" -> "unload"
      [] OTHER -> token

\* the token at place i is the word w, in any case
Is(s, i, w) == i \in 1..Len(s) /\ Lower(s[i]) = w

IsSpaceAt(s, i) == i \in 1..Len(s) /\ IsSpace(s[i])

Least(S) == CHOOSE x \in S : \A y \in S : x <= y

\* \s* from place i on: the first place that holds no white space
SkipSpace(s, i) ==
    IF \E j \in i..Len(s) : ~IsSpace(s[j])
    THEN Least({j \in i..Len(s) : ~IsSpace(s[j])})
    ELSE Len(s) + 1

NoMatch == [found |-> FALSE, start |-> 0, group |-> <<>>]

\* unload\s*\(\s*\$\$ at place i: the place of the opening $$, or 0
UnloadOpens(s, i) ==
    LET paren == SkipSpace(s, i + 1)
        quote == SkipSpace(s, paren + 1)
    IN  IF Is(s, i, "unload") /\ Is(s, paren, "(") /\ Is(s, quote, "$$") THEN quote ELSE 0

\* \$\$\s*\) after the opening $$
UnloadCloses(s, quote) ==
    {j \in (quote + 1)..Len(s) : s[j] = "$$" /\ Is(s, SkipSpace(s, j + 1), ")")}

\* re.search(r"unload\s*\(\s*\$\$(.*?)\$\$\s*\)", ...): group(1)
UnloadMatch(s) ==
    LET starts == {i \in 1..Len(s) :
                    UnloadOpens(s, i) # 0 /\ UnloadCloses(s, UnloadOpens(s, i)) # {}}
    IN  IF starts = {} THEN NoMatch
        ELSE LET quote == UnloadOpens(s, Least(starts))
             IN  [found |-> TRUE, start |-> Least(starts),
                  group |-> SubSeq(s, quote + 1, Least(UnloadCloses(s, quote)) - 1)]

\* \s+.*?\s+as\s+ after the word at place r: the places of such an as
AsPlaces(s, r) ==
    {j \in (r + 3)..Len(s) :
        IsSpaceAt(s, r + 1) /\ IsSpaceAt(s, j - 1) /\ Is(s, j, "as") /\ IsSpaceAt(s, j + 1)}

\* create\s+materialized\s+view at place p: the place of view, or 0
MaterializedViewAt(s, p) ==
    LET q == SkipSpace(s, p + 1)
        r == SkipSpace(s, q + 1)
    IN  IF /\ Is(s, p, "create") /\ IsSpaceAt(s, p + 1)
           /\ Is(s, q, "materialized") /\ IsSpaceAt(s, q + 1)
           /\ Is(s, r, "view")
        THEN r ELSE 0

\* create\s+(or\s+replace\s+)?view at place p: the place of view, or 0
ViewAt(s, p) ==
    LET q == SkipSpace(s, p + 1)
        q2 == SkipSpace(s, q + 1)
        r == SkipSpace(s, q2 + 1)
    IN  IF ~(Is(s, p, "create") /\ IsSpaceAt(s, p + 1)) THEN 0
        ELSE IF Is(s, q, "view") THEN q
        ELSE IF /\ Is(s, q, "or") /\ IsSpaceAt(s, q + 1)
                /\ Is(s, q2, "replace") /\ IsSpaceAt(s, q2 + 1)
                /\ Is(s, r, "view")
        THEN r ELSE 0

\* the group (.*) after \s+as\s+, for the first as the lazy .*? reaches
RestAfterAs(s, start, r) ==
    [found |-> TRUE, start |-> start,
     group |-> SubSeq(s, SkipSpace(s, Least(AsPlaces(s, r)) + 1), Len(s))]

\* re.search(r"create\s+materialized\s+view\s+.*?\s+as\s+(.*)", ...): group(1)
CreateMviewMatch(s) ==
    LET starts == {p \in 1..Len(s) :
                    MaterializedViewAt(s, p) # 0 /\ AsPlaces(s, MaterializedViewAt(s, p)) # {}}
    IN  IF starts = {} THEN NoMatch
        ELSE RestAfterAs(s, Least(starts), MaterializedViewAt(s, Least(starts)))

\* re.search(r"create\s+(or\s+replace\s+)?view\s+.*?\s+as\s+(.*)", ...): group(2)
CreateViewMatch(s) ==
    LET starts == {p \in 1..Len(s) : ViewAt(s, p) # 0 /\ AsPlaces(s, ViewAt(s, p)) # {}}
    IN  IF starts = {} THEN NoMatch
        ELSE RestAfterAs(s, Least(starts), ViewAt(s, Least(starts)))

\* create\s+(temp\s+)?table at place p: the place of table, or 0
TableAt(s, p) ==
    LET q == SkipSpace(s, p + 1)
        r == SkipSpace(s, q + 1)
    IN  IF ~(Is(s, p, "create") /\ IsSpaceAt(s, p + 1)) THEN 0
        ELSE IF Is(s, q, "table") THEN q
        ELSE IF Is(s, q, "temp") /\ IsSpaceAt(s, q + 1) /\ Is(s, r, "table")
        THEN r ELSE 0

\* the letters a, s stand in the token, and what follows them in it
HasAs(token) == Lower(token) = "as" \/ token = "base"
AfterAs(token) == IF token = "base" THEN <<"e">> ELSE <<>>

\* \s+.*?as after table at place r: the tokens that hold the letters a, s
LooseAsPlaces(s, r) ==
    {j \in (r + 2)..Len(s) : IsSpaceAt(s, r + 1) /\ HasAs(s[j])}

\* \s*(\((.*?)\)|(.*)) on what follows as: group(3) or group(4) or ""
ParenOrRest(rest) ==
    LET from == SkipSpace(rest, 1)
        closes == {j \in (from + 1)..Len(rest) : rest[j] = ")"}
    IN  IF Is(rest, from, "(") /\ closes # {}
        THEN SubSeq(rest, from + 1, Least(closes) - 1)
        ELSE SubSeq(rest, from, Len(rest))

\* re.search(r"create\s+(temp\s+)?table\s+.*?as\s*(\((.*?)\)|(.*))", ...)
CreateTableMatch(s) ==
    LET starts == {p \in 1..Len(s) : TableAt(s, p) # 0 /\ LooseAsPlaces(s, TableAt(s, p)) # {}}
    IN  IF starts = {} THEN NoMatch
        ELSE LET j == Least(LooseAsPlaces(s, TableAt(s, Least(starts))))
             IN  [found |-> TRUE, start |-> Least(starts),
                  group |-> ParenOrRest(AfterAs(s[j]) \o SubSeq(s, j + 1, Len(s)))]

\* the pattern whose match starts first in the text gives the body
SqlForParsingByPlace(sql_content) ==
    LET matches == <<UnloadMatch(sql_content), CreateMviewMatch(sql_content),
                     CreateViewMatch(sql_content), CreateTableMatch(sql_content)>>
        found == {k \in 1..4 : matches[k].found}
    IN  IF found = {} THEN sql_content
        ELSE Strip(matches[CHOOSE k \in found :
                              \A l \in found :
                                  \/ matches[k].start < matches[l].start
                                  \/ matches[k].start = matches[l].start /\ k <= l].group)

\* sql_for_parsing: the if / elif chain over the four matches
SqlForParsing(sql_content) ==
    IF UnloadMatch(sql_content).found THEN Strip(UnloadMatch(sql_content).group)
    ELSE IF CreateMviewMatch(sql_content).found
    THEN Strip(CreateMviewMatch(sql_content).group)
    ELSE IF CreateViewMatch(sql_content).found
    THEN Strip(CreateViewMatch(sql_content).group)
    ELSE IF CreateTableMatch(sql_content).found
    THEN Strip(CreateTableMatch(sql_content).group)
    ELSE sql_content

\* the summary with the joined list, also when the list is empty
SqlSummaryOfList(file_path, tables) ==
    [page_content |->
        <<"This SQL script reads from the following tables: ">>
        \o Join(tables, <<",", " ">>) \o <<".">>,
     metadata |-> [source |-> file_path, content_type |-> "sql_summary"]]

\* the summary document
SqlSummary(file_path, tables) ==
    [page_content |->
        <<"This SQL script reads from the following tables: ">>
        \o (IF tables # <<>> THEN Join(tables, <<",", " ">>) ELSE <<"none">>)
        \o <<".">>,
     metadata |-> [source |-> file_path, content_type |-> "sql_summary"]]

\* SqlProcessor.process
SqlProcess(f, left_by_last_call) ==
    LET documents0 == NewDocuments(left_by_last_call)
        documents1 ==
            Append(documents0,
                   [page_content |-> CleanSql(f.text), metadata |-> [source |-> f.path]])
    IN  IF ReadRaises(f) # "none"
        THEN [documents |-> KeptOnException(documents0),
              log |-> <<Warning("Could not process SQL file", f.path)>>]
        ELSE IF ParserRaises(SqlForParsing(CleanSql(f.text)))
        THEN [documents |-> KeptOnException(documents1), log |-> <<>>]
        ELSE [documents |->
                Append(documents1,
                       SqlSummary(f.path, ParserTables(SqlForParsing(CleanSql(f.text))))),
              log |-> <<>>]

(***************************************************************************)
(* processor/python_processor.py.  The text of a source file is what       *)
(* ast.parse makes of it: a syntax error, or the nodes of the tree in the  *)
(* order of ast.walk, each [type, names, name, doc].                       *)
(***************************************************************************)
\* module names in the order sorted() gives them
ModuleOrder == <<"ast", "os", "re">>

Sorted(names) == SelectSeq(ModuleOrder, LAMBDA m : m \in names)

NodeNames(node) == {node.names[i] : i \in 1..Len(node.names)}

\* a variant that would overlook the from-imports
ImportsOfImportStatements(nodes) ==
    UNION {NodeNames(nodes[i]) : i \in {j \in 1..Len(nodes) : nodes[j].type = "Import"}}

\* the names of import statements, and the modules of from-imports that
\* name one
Imports(nodes) ==
    UNION {NodeNames(nodes[i]) : i \in {j \in 1..Len(nodes) : nodes[j].type = "Import"}}
    \cup UNION {NodeNames(nodes[i]) :
                    i \in {j \in 1..Len(nodes) : nodes[j].type = "ImportFrom"}}

ImportSummary(file_path, nodes) ==
    [page_content |->
        <<"This Python script imports the following libraries: ">>
        \o Join([i \in 1..Len(Sorted(Imports(nodes))) |-> <<Sorted(Imports(nodes))[i]>>],
                <<",", " ">>)
        \o <<".">>,
     metadata |-> [source |-> file_path, content_type |-> "python_summary"]]

FunctionDocument(file_path, node) ==
    [page_content |->
        <<"Function '", node.name, "': ",
          IF node.doc = "" THEN "No docstring provided." ELSE node.doc>>,
     metadata |-> [source |-> file_path, function_name |-> node.name]]

\* a variant that would also give a passage to the coroutines (async def)
FunctionDocumentsWithCoroutines(file_path, nodes) ==
    LET defs == SelectSeq(nodes,
                          LAMBDA node : node.type \in {"FunctionDef", "AsyncFunctionDef"})
    IN  [i \in 1..Len(defs) |-> FunctionDocument(file_path, defs[i])]

\* one document for each ast.FunctionDef node, in the order of ast.walk
FunctionDocuments(file_path, nodes) ==
    LET defs == SelectSeq(nodes, LAMBDA node : node.type = "FunctionDef")
    IN  [i \in 1..Len(defs) |-> FunctionDocument(file_path, defs[i])]

\* a parser that would make a tree of any text
AstParseLenient(text) == FALSE

\* ast.parse(python_content) raises SyntaxError on a text that is no program
AstParseRaises(text) == ~text.syntax_ok

\* PythonProcessor.process
PythonProcess(f, left_by_last_call) ==
    LET documents0 == NewDocuments(left_by_last_call)
        documents1 ==
            Append(documents0, [page_content |-> f.text, metadata |-> [source |-> f.path]])
    IN  IF ReadRaises(f) # "none"
        THEN [documents |-> KeptOnException(documents0),
              log |-> <<Warning("Could not process Python file", f.path)>>]
        ELSE IF AstParseRaises(f.text)
        THEN [documents |-> KeptOnException(documents1),
              log |-> <<Warning("Could not process Python file", f.path)>>]
        ELSE [documents |->
                Append(documents1, ImportSummary(f.path, f.text.nodes))
                \o FunctionDocuments(f.path, f.text.nodes),
              log |-> <<>>]

(***************************************************************************)
(* processor/json_processor.py.  The text of a JSON file is what json.load *)
(* makes of it: [valid, data].                                             *)
(***************************************************************************)
\* TextLoader(file_path, encoding="utf-8").load()
TextLoaderLoad(f) == <<[page_content |-> f.text, metadata |-> [source |-> f.path]]>>

\* x in data, which raises TypeError on a value that is no container
InRaises(data) == data.t \in {"none", "int"}
In(x, data) ==
    CASE data.t = "dict" -> HasKey(data, x)
      [] data.t = "list" -> \E i \in 1..Len(data.v) : data.v[i] = x
      [] OTHER -> FALSE   \* a string that does not hold the word

PiiLevel == "pii_confidentiality_impact_level"
ImpactLevelOf == " It has a PII confidentiality impact level of '"

\* a column sentence that ends with the impact level, whatever it is
ColumnTextWithImpact(table_name, col_name, col_data) ==
    <<"In table '">> \o table_name \o <<"', column '">>
    \o Format(col_name) \o <<"' has the description: ">>
    \o Format(Get(col_data, Key("description"), Key("N/A")))
    \o <<ImpactLevelOf>> \o Format(Get(col_data, Key(PiiLevel), PyNone)) \o <<"'.">>

\* the page_content of a column document
ColumnText(table_name, col_name, col_data) ==
    <<"In table '">> \o table_name \o <<"', column '">>
    \o Format(col_name) \o <<"' has the description: ">>
    \o Format(Get(col_data, Key("description"), Key("N/A")))

\* a column loop that passes over a col_data that is no mapping
RECURSIVE JsonColumnsSkipping(_, _, _, _, _)
JsonColumnsSkipping(docs, columns, k, table_metadata, file_path) ==
    IF k > Len(columns)
    THEN [documents |-> docs, log |-> <<>>]
    ELSE IF ~IsDict(columns[k][2])
    THEN JsonColumnsSkipping(docs, columns, k + 1, table_metadata, file_path)
    ELSE JsonColumnsSkipping(
            Append(docs,
                   [page_content |->
                        ColumnText(table_metadata.table, columns[k][1], columns[k][2]),
                    metadata |-> [source |-> table_metadata.source,
                                  table |-> table_metadata.table,
                                  schema |-> table_metadata.schema,
                                  column |-> columns[k][1]]]),
            columns, k + 1, table_metadata, file_path)

\* the column loop from entry k on: a col_data that is no mapping raises
RECURSIVE JsonColumnsFrom(_, _, _, _, _)
JsonColumnsFrom(docs, columns, k, table_metadata, file_path) ==
    IF k > Len(columns)
    THEN [documents |-> docs, log |-> <<>>]
    ELSE IF ~IsDict(columns[k][2])
    THEN [documents |-> KeptOnException(docs),
          log |-> <<Warning("Could not process JSON file", file_path)>>]
    ELSE JsonColumnsFrom(
            Append(docs,
                   [page_content |->
                        ColumnText(table_metadata.table, columns[k][1], columns[k][2]),
                    metadata |-> [source |-> table_metadata.source,
                                  table |-> table_metadata.table,
                                  schema |-> table_metadata.schema,
                                  column |-> columns[k][1]]]),
            columns, k + 1, table_metadata, file_path)

\* the early return taken only when both keys are missing
LacksBoth(data) == ~In(Key("schema"), data) /\ ~In(Key("table"), data)

\* "schema" not in data or "table" not in data
LacksSchemaOrTable(data) == ~In(Key("schema"), data) \/ ~In(Key("table"), data)

\* except json.JSONDecodeError: pass
JsonDecodeSilent(file_path) == <<>>

\* except json.JSONDecodeError: the warning printed
JsonDecodeWarning(file_path) == <<Warning("Could not parse JSON file", file_path)>>

\* JsonProcessor.process
JsonProcess(f, left_by_last_call) ==
    LET documents0 == NewDocuments(left_by_last_call)
        documents1 == documents0 \o TextLoaderLoad(f)
        data == f.text.data
        unexpected == <<Warning("Could not process JSON file", f.path)>>
        table_metadata ==
            [source |-> f.path,
             table |-> Format(Get(data, Key("table"), PyStr(<<>>))),
             schema |-> Format(Get(data, Key("schema"), PyStr(<<>>)))]
        documents2 ==
            Append(documents1,
                   [page_content |->
                        <<"This document describes the table '">> \o table_metadata.table
                        \o <<"' in the schema '">> \o table_metadata.schema
                        \o <<"'. Description: ">>
                        \o Format(Get(data, Key("table_description"), Key("N/A"))),
                    metadata |-> table_metadata])
        column_types == Get(data, Key("column_types"), EmptyDict)
    IN  IF ReadRaises(f) # "none"
        THEN [documents |-> KeptOnException(documents0), log |-> unexpected]
        ELSE IF ~f.text.valid
        THEN [documents |-> KeptOnException(documents1), log |-> JsonDecodeWarning(f.path)]
        ELSE IF InRaises(data)
        THEN [documents |-> KeptOnException(documents1), log |-> unexpected]
        ELSE IF LacksSchemaOrTable(data)
        THEN [documents |-> documents1, log |-> <<>>]
        ELSE IF ~IsDict(data)
        THEN [documents |-> KeptOnException(documents1), log |-> unexpected]
        ELSE IF ~IsDict(column_types)
        THEN [documents |-> KeptOnException(documents2), log |-> unexpected]
        ELSE JsonColumnsFrom(documents2, column_types.v, 1, table_metadata, f.path)

(***************************************************************************)
(* data_loader.py: the fallback of _load_and_split_documents for an        *)
(* allowed extension without processor.  The texts of the model are        *)
(* shorter than chunk_size, so the splitter returns the text trimmed of    *)
(* surrounding white space as one chunk, and nothing for a blank text.     *)
(***************************************************************************)
SplitDocuments(docs) ==
    IF Strip(docs[1].page_content) = <<>> THEN <<>>
    ELSE <<[page_content |-> Strip(docs[1].page_content), metadata |-> docs[1].metadata]>>

\* the else branch of DataLoader._load_and_split_documents
GenericChunks(f, left_by_last_call) ==
    IF ReadRaises(f) # "none"
    THEN [documents |-> <<>>, log |-> <<>>]
    ELSE [documents |-> SplitDocuments(TextLoaderLoad(f)), log |-> <<>>]

(***************************************************************************)
(* The execution specifications the dependency parser is applied to.       *)
(***************************************************************************)
FlowChars == {"a", "b", " ", ">"}

RECURSIVE SeqsUpTo(_, _)
SeqsUpTo(S, n) ==
    IF n = 0 THEN {<<>>}
    ELSE LET shorter == SeqsUpTo(S, n - 1)
         IN  shorter \cup {Append(s, x) : s \in {t \in shorter : Len(t) = n - 1}, x \in S}

ChainStrings == SeqsUpTo(FlowChars, MaxChainLen)

\* chains that name tasks in the usual way, kept for the longer lists
PlainChains ==
    { <<"a", ">", ">", "b">>, <<"b", ">", ">", "a">>, <<"a", ">", ">", "a">>,
      <<"a", " ", ">", ">", " ", "b">>, <<"a", ">", ">", "b", ">", ">", "a">>,
      <<"a", ">", ">", "b", ">", ">", "c">>, <<"a">>, <<>> }

FlowLists ==
    {PyList(<<>>)}
    \cup {PyList(<<PyStr(c)>>) : c \in ChainStrings \cup PlainChains}
    \cup {PyList([i \in DOMAIN cs |-> PyStr(cs[i])]) :
            cs \in UNION {[1..m -> PlainChains] : m \in 2..MaxChains}}

FlowInputs ==
    FlowLists
    \cup {PyNone, PyStr(<<"a", ">", ">", "b">>), PyList(<<PyInt(<<"1">>)>>),
          PyList(<<PyStr(<<"a", ">", ">", "b">>), PyNone>>)}

NotCalled == [state |-> "not called"]


FlowInit ==
    /\ flowInput \in FlowInputs
    /\ flowResult = NotCalled
    /\ file = NotCalled
    /\ documents = <<>>
    /\ log = <<>>
    /\ pc = "ready"
    /\ earlier = NotCalled
    /\ NoWalk

\* one call of _parse_execution_flow on the chosen argument
CallParseExecutionFlow ==
    /\ flowResult = NotCalled
    /\ flowResult' =
          IF FlowRaises(flowInput)
          THEN [state |-> "raised", exc |-> "AttributeError"]
          ELSE [state |-> "returned", deps |-> ParseExecutionFlow(flowInput)]
    /\ UNCHANGED <<file, documents, log, pc, earlier, flowInput, walkVars>>

FlowNext == CallParseExecutionFlow

SpecFlow == FlowInit /\ [][FlowNext]_vars

(***************************************************************************)
(* The workflow files YamlProcessor.process is applied to.  A file is      *)
(* [path, ext, access, text]; the text of a YAML file is the sequence of   *)
(* its sub-documents, each [wellformed, value]: what the parser makes of   *)
(* it, or a syntax error.                                                  *)
(***************************************************************************)
Word(w) == PyStr(<<w>>)
Chars(s) == PyStr(s)

\* an optional entry of a mapping: absent, or key: value
Entry(key, value) == <<<<Key(key), value>>>>
Absent == <<>>

DagIds ==
    {Absent} \cup
    {Entry("dag_id", x) :
        x \in {Word("a"), Word("b"), Word("N/A"), Word("raw"), PyInt(<<"1">>), PyNone}}

DagDetails ==
    {Absent,
     Entry("default_args", PyDict(Entry("owner", Word("o")))),
     Entry("default_args", EmptyDict),
     Entry("default_args", PyNone),
     Entry("schedule_interval", Word("s")) \o Entry("description", Word("d")),
     Entry("description", Word("d"))
        \o Entry("default_args", PyDict(Entry("owner", Word("o"))))
        \o Entry("schedule_interval", Word("s"))}

DagValues ==
    {PyNone, Word("x"), PyList(<<>>)}
    \cup {PyDict(id \o details) : id \in DagIds, details \in DagDetails}

TaskDetails ==
    {EmptyDict, PyDict(Entry("operator", Word("op")) \o Entry("file", Word("f.py")))}

TaskNames ==
    {Word("a"), Word("b"), Word("p"), Word("__DAG_SUMMARY__"), PyInt(<<"1">>), Word("1"),
     Word("c")}

TaskMappings ==
    {EmptyDict, PyDict(<<<<Word("a"), PyNone>>>>)}
    \cup {PyDict(<<<<n, d>>>>) : n \in TaskNames, d \in TaskDetails}
    \cup {PyDict(<<<<n[1], EmptyDict>>, <<n[2], d>>>>) :
            n \in {<<Word("a"), Word("b")>>, <<Word("b"), Word("a")>>,
                   <<PyInt(<<"1">>), Word("1")>>},
            d \in {PyDict(Entry("operator", Word("op"))), PyNone}}
    \cup {PyDict(<<<<Word("a"), EmptyDict>>, <<Word("b"), EmptyDict>>,
                   <<Word("c"), PyDict(Entry("file", Word("f.py")))>>>>)}

TaskOptions ==
    {Absent, Entry("tasks", PyList(<<Word("a")>>)), Entry("tasks", PyNone)}
    \cup {Entry("tasks", m) : m \in TaskMappings}

Chain(s) == PyStr(s)
AtoB == <<"a", ">", ">", "b">>
BtoA == <<"b", ">", ">", "a">>

ExecutionOptions ==
    {Absent,
     Entry("execution", PyList(<<>>)),
     Entry("execution", PyList(<<Chain(AtoB)>>)),
     Entry("execution", PyList(<<Chain(<<"a", " ", ">", ">", " ", "b", ">", ">", "c">>)>>)),
     Entry("execution", PyList(<<Chain(AtoB), Chain(BtoA)>>)),
     Entry("execution", PyList(<<Chain(AtoB), Chain(<<"c", ">", ">", "b">>)>>)),
     Entry("execution", PyList(<<Chain(AtoB), Chain(AtoB)>>)),
     Entry("execution", Chain(AtoB)),
     Entry("execution", PyList(<<Chain(AtoB), PyInt(<<"1">>)>>)),
     Entry("execution", PyNone)}

WellFormed(value) == [wellformed |-> TRUE, value |-> value]
Malformed == [wellformed |-> FALSE, value |-> PyNone]

DagDoc(dag, tasks, execution) == WellFormed(PyDict(Entry("dag", dag) \o tasks \o execution))

\* sub-documents that are no workflow definition
OtherDocs ==
    {WellFormed(PyNone), WellFormed(PyList(<<Word("dag")>>)), WellFormed(Word("dag")),
     WellFormed(PyDict(Entry("config", EmptyDict))),
     WellFormed(PyDict(Entry("tasks", PyDict(<<<<Word("a"), EmptyDict>>>>))
                       \o Entry("execution", PyList(<<Chain(AtoB)>>))))}

\* the sub-document under study: every task mapping with every execution
\* specification, and every dag mapping with a few of each
WideDocs ==
    OtherDocs \cup {Malformed}
    \cup {DagDoc(PyDict(Entry("dag_id", Word("a"))), tasks, execution) :
            tasks \in TaskOptions, execution \in ExecutionOptions}
    \cup {DagDoc(dag, tasks, Entry("execution", PyList(<<Chain(AtoB)>>))) :
            dag \in DagValues,
            tasks \in {Absent,
                       Entry("tasks", PyDict(<<<<Word("a"), EmptyDict>>,
                                               <<Word("b"), PyDict(Entry("operator", Word("op")))>>>>)),
                       Entry("tasks", PyDict(<<<<Word("p"), EmptyDict>>>>))}}

TwoTasks ==
    Entry("tasks", PyDict(<<<<Word("a"), EmptyDict>>,
                            <<Word("b"), PyDict(Entry("operator", Word("op")))>>>>))

\* the sub-documents that stand before and after it in the stream
NarrowDocs ==
    {Malformed, WellFormed(PyNone), WellFormed(PyDict(Entry("config", EmptyDict))),
     DagDoc(PyDict(Entry("dag_id", Word("a"))), TwoTasks,
            Entry("execution", PyList(<<Chain(AtoB)>>))),
     DagDoc(PyDict(Entry("dag_id", Word("b"))), TwoTasks, Absent),
     DagDoc(EmptyDict, Entry("tasks", PyDict(<<<<Word("c"), EmptyDict>>>>)), Absent),
     DagDoc(PyDict(Entry("dag_id", Word("b"))),
            Entry("tasks", PyDict(<<<<Word("a"), PyNone>>>>)), Absent)}

\* the sub-documents set beside a wide one
Neighbours ==
    {Malformed, WellFormed(PyNone),
     DagDoc(PyDict(Entry("dag_id", Word("a"))), TwoTasks,
            Entry("execution", PyList(<<Chain(AtoB)>>))),
     DagDoc(PyDict(Entry("dag_id", Word("b"))), TwoTasks, Absent),
     DagDoc(EmptyDict, Entry("tasks", PyDict(<<<<Word("c"), EmptyDict>>>>)), Absent),
     DagDoc(PyDict(Entry("dag_id", Word("b"))),
            Entry("tasks", PyDict(<<<<Word("a"), PyNone>>>>)), Absent)}

\* streams of up to n sub-documents: any narrow ones, or a wide one alone,
\* before or after a neighbour
YamlTexts(n) ==
    {<<>>}
    \cup {<<d>> : d \in WideDocs}
    \cup UNION {[1..m -> NarrowDocs] : m \in 2..n}
    \cup {<<w, d>> : w \in WideDocs, d \in Neighbours}
    \cup {<<d, w>> : w \in WideDocs, d \in Neighbours}

YamlPath == <<"p">>

YamlFile(access, text) ==
    [path |-> YamlPath, ext |-> ".yaml", access |-> access, text |-> text]

YamlFiles(n) ==
    {YamlFile("ok", text) : text \in YamlTexts(n)}
    \cup {YamlFile(access, text) :
            access \in {"open_error", "read_error", "decode_error"},
            text \in {<<>>, <<Malformed>>,
                      <<DagDoc(PyDict(Entry("dag_id", Word("a"))), TwoTasks, Absent)>>}}

YamlInit ==
    /\ file \in YamlFiles(MaxDocs)
    /\ documents = <<>>
    /\ log = <<>>
    /\ pc = "ready"
    /\ earlier = NotCalled
    /\ flowInput = PyNone
    /\ flowResult = NotCalled
    /\ NoWalk

\* one call of YamlProcessor.process on the chosen file
CallYamlProcess ==
    /\ pc = "ready"
    /\ file.ext = ".yaml"
    /\ LET outcome == YamlProcess(file, documents)
       IN  /\ documents' = outcome.documents
           /\ log' = outcome.log
    /\ pc' = "returned"
    /\ UNCHANGED <<file, earlier, flowInput, flowResult, walkVars>>

YamlNext == CallYamlProcess

SpecYaml == YamlInit /\ [][YamlNext]_vars

(***************************************************************************)
(* The files of the other formats, and one process call on a file of any   *)
(* format.                                                                 *)
(***************************************************************************)
Failures == {"open_error", "read_error", "decode_error"}

SqlTokens == {Marker, " ", "\n", "t1", "t2", "bad"}
SqlTexts(n) == SeqsUpTo(SqlTokens, n)
\* statements that the patterns match, or just fail to match
Statements ==
    {<<"unload", "(", "$$", "t1", "$$", ")">>,
     <<"UNLOAD", " ", "(", " ", "$$", " ", "bad", " ", "$$", " ", ")">>,
     <<"unload", "(", "$$", "t1">>,
     <<"create", " ", "materialized", " ", "view", " ", "v", " ", "as", " ", "t2">>,
     <<"create", " ", "view", " ", "v", " ", "as", " ", "t3">>,
     <<"CREATE", "\n", "or", " ", "replace", " ", "VIEW", " ", "v", " ", "AS", " ", "t3">>,
     <<"create", " ", "view", " ", "as", " ", "t3">>,
     <<"create", " ", "table", " ", "x", " ", "as", " ", "(", "t4", ")">>,
     <<"create", " ", "temp", " ", "table", " ", "base", " ", "as", " ", "t4">>,
     <<"create", " ", "table", " ", "x", " ", "as", " ", "(", ")">>,
     <<"create", " ", "table", " ", "x", " ", "as", " ", "(", "(", "t1", ")", " ", "t2", ")">>,
     <<"t1">>,
     <<"bad">>}

\* scripts of up to n statements, one to a line, some under the marker
SqlScripts(n) ==
    LET bodies == {Join(ss, <<"\n">>) : ss \in SeqsUpTo(Statements, n) \ {<<>>}}
    IN  bodies \cup {<<Marker, "\n">> \o st : st \in Statements}

SqlFiles(n) ==
    {[path |-> <<"q">>, ext |-> ".sql", access |-> "ok", text |-> text] :
        text \in SqlTexts(n) \cup SqlScripts(MaxStatements)}
    \cup {[path |-> <<"q">>, ext |-> ".sql", access |-> access, text |-> <<"t1">>] :
            access \in Failures}

Node(type, names, name, doc) == [type |-> type, names |-> names, name |-> name, doc |-> doc]
Import(names) == Node("Import", names, "", "")
ImportFrom(module) == Node("ImportFrom", module, "", "")
FunctionDef(name, doc) == Node("FunctionDef", <<>>, name, doc)
OtherNode(type) == Node(type, <<>>, "C", "")

PythonTrees ==
    {<<>>,
     <<Import(<<"os", "re">>)>>,
     <<Import(<<"re">>), ImportFrom(<<"os">>), Import(<<"os">>)>>,
     <<ImportFrom(<<>>), FunctionDef("f", "")>>,
     <<Import(<<"re">>), ImportFrom(<<"ast">>), FunctionDef("f", "does f"),
       OtherNode("ClassDef"), FunctionDef("g", ""), FunctionDef("f", "")>>,
     <<OtherNode("AsyncFunctionDef"), FunctionDef("h", "does h")>>}

PythonFiles ==
    {[path |-> <<"m">>, ext |-> ".py", access |-> "ok",
      text |-> [syntax_ok |-> TRUE, nodes |-> nodes]] : nodes \in PythonTrees}
    \cup {[path |-> <<"m">>, ext |-> ".py", access |-> "ok",
           text |-> [syntax_ok |-> FALSE, nodes |-> <<>>]]}
    \cup {[path |-> <<"m">>, ext |-> ".py", access |-> access,
           text |-> [syntax_ok |-> TRUE, nodes |-> <<FunctionDef("f", "")>>]] :
            access \in Failures}

SchemaAndTable == Entry("schema", Word("s")) \o Entry("table", Word("t"))

\* column descriptors: without or with a null classification, and tagged
Untagged ==
    {EmptyDict,
     PyDict(Entry("description", Word("d"))),
     PyDict(Entry("column_type", Word("int")) \o Entry("max_length", Word("None"))
            \o Entry("description", Word("d")) \o <<<<Key(PiiLevel), PyNone>>>>)}
Tagged ==
    {PyDict(<<<<Key(PiiLevel), Word("high_sensibility")>>>>),
     PyDict(Entry("column_type", Word("string")) \o Entry("max_length", Word("200"))
            \o Entry("description", Word("d"))
            \o <<<<Key(PiiLevel), Word("high_sensibility")>>>>)}
Descriptors == Untagged \cup Tagged

Columns ==
    {Absent, Entry("column_types", EmptyDict),
     Entry("column_types", PyList(<<Word("c1")>>)),
     Entry("column_types", PyDict(Entry("c1", PyNone) \o Entry("c2", EmptyDict))),
     Entry("column_types", PyDict(Entry("c1", EmptyDict) \o Entry("c2", PyNone)))}
    \cup {Entry("column_types", PyDict(Entry("c1", d))) : d \in Descriptors}
    \cup {Entry("column_types", PyDict(Entry("c1", d1) \o Entry("c2", d2))) :
            d1 \in Descriptors, d2 \in Descriptors}

\* the keys of the table besides its columns
TableKeys ==
    {<<>>,
     Entry("table_description", Word("d")),
     Entry("table_description", Word("d"))
        \o Entry("source", PyList(<<Word("l1"), Word("l2")>>))
        \o Entry("table_id", PyList(<<Word("c1"), Word("c2")>>))}

JsonDatas ==
    {PyNone, PyInt(<<"1">>), PyList(<<>>), PyList(<<Word("schema"), Word("table")>>),
     Word("x"), EmptyDict,
     PyDict(Entry("schema", Word("s"))), PyDict(Entry("table", Word("t"))),
     PyDict(Entry("schema", Word("s")) \o Entry("column_types", PyDict(Entry("c1", EmptyDict)))),
     PyDict(Entry("column_types", PyDict(Entry("c1", EmptyDict))))}
    \cup {PyDict(SchemaAndTable \o keys \o columns) : keys \in TableKeys, columns \in Columns}

JsonFiles ==
    {[path |-> <<"j">>, ext |-> ".json", access |-> "ok",
      text |-> [valid |-> TRUE, data |-> data]] : data \in JsonDatas}
    \cup {[path |-> <<"j">>, ext |-> ".json", access |-> "ok",
           text |-> [valid |-> FALSE, data |-> PyNone]]}
    \cup {[path |-> <<"j">>, ext |-> ".json", access |-> access,
           text |-> [valid |-> TRUE, data |-> PyDict(SchemaAndTable)]] :
            access \in Failures}

MdTokens == {" ", "\n", "w"}
MdFiles(n) ==
    {[path |-> <<"d">>, ext |-> ".md", access |-> "ok", text |-> text] :
        text \in SeqsUpTo(MdTokens, n)}
    \cup {[path |-> <<"d">>, ext |-> ".md", access |-> access, text |-> <<"w">>] :
            access \in Failures}

Init ==
    /\ \/ file \in YamlFiles(MaxDocs)
       \/ file \in SqlFiles(MaxSqlLen)
       \/ file \in PythonFiles
       \/ file \in JsonFiles
       \/ file \in MdFiles(MaxMdLen)
    /\ documents = <<>>
    /\ log = <<>>
    /\ pc = "ready"
    /\ earlier = NotCalled
    /\ flowInput = PyNone
    /\ flowResult = NotCalled
    /\ NoWalk

\* one call of SqlProcessor.process on the chosen file
CallSqlProcess ==
    /\ pc = "ready"
    /\ file.ext = ".sql"
    /\ LET outcome == SqlProcess(file, documents)
       IN  /\ documents' = outcome.documents
           /\ log' = outcome.log
    /\ pc' = "returned"
    /\ UNCHANGED <<file, earlier, flowInput, flowResult, walkVars>>

\* one call of PythonProcessor.process on the chosen file
CallPythonProcess ==
    /\ pc = "ready"
    /\ file.ext = ".py"
    /\ LET outcome == PythonProcess(file, documents)
       IN  /\ documents' = outcome.documents
           /\ log' = outcome.log
    /\ pc' = "returned"
    /\ UNCHANGED <<file, earlier, flowInput, flowResult, walkVars>>

\* one call of JsonProcessor.process on the chosen file
CallJsonProcess ==
    /\ pc = "ready"
    /\ file.ext = ".json"
    /\ LET outcome == JsonProcess(file, documents)
       IN  /\ documents' = outcome.documents
           /\ log' = outcome.log
    /\ pc' = "returned"
    /\ UNCHANGED <<file, earlier, flowInput, flowResult, walkVars>>

\* the generic chunker on the chosen file
CallGenericChunks ==
    /\ pc = "ready"
    /\ file.ext = ".md"
    /\ LET outcome == GenericChunks(file, documents)
       IN  /\ documents' = outcome.documents
           /\ log' = outcome.log
    /\ pc' = "returned"
    /\ UNCHANGED <<file, earlier, flowInput, flowResult, walkVars>>

Next ==
    \/ CallYamlProcess
    \/ CallSqlProcess
    \/ CallPythonProcess
    \/ CallJsonProcess
    \/ CallGenericChunks

Spec == Init /\ [][Next]_vars

(***************************************************************************)
(* A run of process calls on the same processor instances, as the          *)
(* dispatch table of DataLoader keeps them.  earlier keeps the first call  *)
(* of the run and whether a call on another file followed it.              *)
(***************************************************************************)
RunFiles ==
    {YamlFile("ok", <<DagDoc(PyDict(Entry("dag_id", Word("a"))), TwoTasks,
                             Entry("execution", PyList(<<Chain(AtoB)>>))),
                      DagDoc(PyDict(Entry("dag_id", Word("b"))), TwoTasks, Absent)>>),
     YamlFile("ok", <<DagDoc(PyNone, TwoTasks, Absent)>>),
     YamlFile("ok", <<Malformed>>),
     YamlFile("decode_error", <<>>),
     [path |-> <<"q">>, ext |-> ".sql", access |-> "ok", text |-> <<Marker, "\n", "t1", "t2">>],
     [path |-> <<"q">>, ext |-> ".sql", access |-> "ok", text |-> <<"bad">>],
     [path |-> <<"q">>, ext |-> ".sql", access |-> "open_error", text |-> <<"t1">>],
     [path |-> <<"m">>, ext |-> ".py", access |-> "ok",
      text |-> [syntax_ok |-> TRUE,
                nodes |-> <<Import(<<"re">>), ImportFrom(<<"os">>), FunctionDef("f", "")>>]],
     [path |-> <<"m">>, ext |-> ".py", access |-> "ok",
      text |-> [syntax_ok |-> FALSE, nodes |-> <<>>]],
     [path |-> <<"j">>, ext |-> ".json", access |-> "ok",
      text |-> [valid |-> TRUE,
                data |-> PyDict(SchemaAndTable
                                \o Entry("column_types", PyDict(Entry("c1", EmptyDict))))]],
     [path |-> <<"j">>, ext |-> ".json", access |-> "ok",
      text |-> [valid |-> FALSE, data |-> PyNone]],
     [path |-> <<"d">>, ext |-> ".md", access |-> "ok", text |-> <<"w", " ">>],
     [path |-> <<"d">>, ext |-> ".md", access |-> "ok", text |-> <<>>]}

NoFile == [path |-> <<>>, ext |-> "", access |-> "", text |-> <<>>]

RunInit ==
    /\ file = NoFile
    /\ documents = <<>>
    /\ log = <<>>
    /\ pc = "ready"
    /\ earlier = NotCalled
    /\ flowInput = PyNone
    /\ flowResult = NotCalled
    /\ NoWalk

\* the call returns; the first call of the run is kept for comparison
Return(f, outcome) ==
    /\ file' = f
    /\ documents' = outcome.documents
    /\ log' = outcome.log
    /\ pc' = "returned"
    /\ earlier' =
          IF pc = "ready" THEN earlier
          ELSE IF earlier.state = "not called"
          THEN [state |-> "returned", file |-> file, documents |-> documents,
                log |-> log, others |-> FALSE]
          ELSE IF file.ext # earlier.file.ext \/ file # earlier.file
          THEN [earlier EXCEPT !.others = TRUE]
          ELSE earlier
    /\ UNCHANGED <<flowInput, flowResult, walkVars>>

NextYamlProcess ==
    /\ pc \in {"ready", "returned"}
    /\ \E f \in {g \in RunFiles : g.ext = ".yaml"} : Return(f, YamlProcess(f, documents))
NextSqlProcess ==
    /\ pc \in {"ready", "returned"}
    /\ \E f \in {g \in RunFiles : g.ext = ".sql"} : Return(f, SqlProcess(f, documents))
NextPythonProcess ==
    /\ pc \in {"ready", "returned"}
    /\ \E f \in {g \in RunFiles : g.ext = ".py"} : Return(f, PythonProcess(f, documents))
NextJsonProcess ==
    /\ pc \in {"ready", "returned"}
    /\ \E f \in {g \in RunFiles : g.ext = ".json"} : Return(f, JsonProcess(f, documents))
NextGenericChunks ==
    /\ pc \in {"ready", "returned"}
    /\ \E f \in {g \in RunFiles : g.ext = ".md"} : Return(f, GenericChunks(f, documents))

RunNext ==
    \/ NextYamlProcess
    \/ NextSqlProcess
    \/ NextPythonProcess
    \/ NextJsonProcess
    \/ NextGenericChunks

SpecRun == RunInit /\ [][RunNext]_vars

(***************************************************************************)
(* data_loader.py: the YamlProcessor the dispatch table of DataLoader      *)
(* holds.  It keeps the documents appended before an exception, also       *)
(* those of the sub-document that raised.                                  *)
(***************************************************************************)
\* a test that would let every execution specification through
TruthyAlways(x) == TRUE

\* bool(x) of a parsed value
Truthy(x) ==
    CASE x.t = "none" -> FALSE
      [] x.t = "int" -> x.v # <<"0">>
      [] OTHER -> x.v # <<>>

\* the task documents from entry k on, up to the first task_details that is
\* no mapping
RECURSIVE LoaderTasksFrom(_, _, _, _, _)
LoaderTasksFrom(docs, tasks, k, dag_id, file_path) ==
    IF k > Len(tasks)
    THEN [documents |-> docs, raised |-> FALSE]
    ELSE IF ~IsDict(tasks[k][2])
    THEN [documents |-> docs, raised |-> TRUE]
    ELSE LoaderTasksFrom(
            Append(docs,
                   [page_content |->
                        <<"The DAG '">> \o Format(dag_id) \o <<"' contains a task named '">>
                        \o Format(tasks[k][1]) \o <<"'. This task uses the '">>
                        \o Format(Get(tasks[k][2], Key("operator"), Key("unknown")))
                        \o <<"' operator and runs the script '">>
                        \o Format(Get(tasks[k][2], Key("file"), Key("not specified")))
                        \o <<"'.">>,
                    metadata |-> [source |-> file_path, dag_id |-> dag_id,
                                  task_name |-> tasks[k][1]]]),
            tasks, k + 1, dag_id, file_path)

\* the body of the for loop for one sub-document that has the dag key
LoaderDagDoc(docs, doc, file_path) ==
    LET dag_info == Get(doc, Key("dag"), EmptyDict)
        dag_id == Get(dag_info, Key("dag_id"), Key("N/A"))
        default_args == Get(dag_info, Key("default_args"), EmptyDict)
        summary ==
            [page_content |->
                <<"This document describes the DAG configuration with ID '">>
                \o Format(dag_id) \o <<"'. The owner is '">>
                \o Format(Get(default_args, Key("owner"), Key("N/A")))
                \o <<"', it runs on schedule: '">>
                \o Format(Get(dag_info, Key("schedule_interval"), Key("N/A")))
                \o <<"', and its description is: '">>
                \o Format(Get(dag_info, Key("description"), Key("No description provided.")))
                \o <<"'.">>,
             metadata |-> [source |-> file_path, dag_id |-> dag_id]]
        tasks == Get(doc, Key("tasks"), EmptyDict)
        with_tasks == LoaderTasksFrom(Append(docs, summary), tasks.v, 1, dag_id, file_path)
        execution_flow == Get(doc, Key("execution"), PyList(<<>>))
        flow_str ==
            IF IsList(execution_flow)
            THEN Join([i \in 1..Len(execution_flow.v) |-> execution_flow.v[i].v], <<",", " ">>)
            ELSE Format(execution_flow)
    IN  IF ~IsDict(dag_info) \/ ~IsDict(default_args)
        THEN [documents |-> docs, raised |-> TRUE]
        ELSE IF ~IsDict(tasks)
        THEN [documents |-> Append(docs, summary), raised |-> TRUE]
        ELSE IF with_tasks.raised \/ ~Truthy(execution_flow)
        THEN with_tasks
        ELSE IF IsList(execution_flow)
                /\ \E i \in 1..Len(execution_flow.v) : ~IsStr(execution_flow.v[i])
        THEN [documents |-> with_tasks.documents, raised |-> TRUE]
        ELSE [documents |->
                Append(with_tasks.documents,
                       [page_content |->
                            <<"The execution flow for DAG '">> \o Format(dag_id)
                            \o <<"' is defined as follows: ">> \o flow_str \o <<".">>,
                        metadata |-> [source |-> file_path, dag_id |-> dag_id]]),
              raised |-> FALSE]

\* the for loop over yaml_docs from sub-document k on
RECURSIVE LoaderDocsFrom(_, _, _, _)
LoaderDocsFrom(docs, yaml_docs, k, file_path) ==
    IF k > Len(yaml_docs)
    THEN [documents |-> docs, log |-> <<>>]
    ELSE IF ~IsDagDoc(yaml_docs[k])
    THEN LoaderDocsFrom(docs, yaml_docs, k + 1, file_path)
    ELSE LET after == LoaderDagDoc(docs, yaml_docs[k], file_path)
         IN  IF after.raised
             THEN [documents |-> KeptOnException(after.documents),
                   log |-> <<Warning("Could not process YAML file", file_path)>>]
             ELSE LoaderDocsFrom(after.documents, yaml_docs, k + 1, file_path)

\* YamlProcessor.process of data_loader.py
LoaderYamlProcess(f, left_by_last_call) ==
    LET documents0 == NewDocuments(left_by_last_call)
        documents1 ==
            Append(documents0, [page_content |-> f.text, metadata |-> [source |-> f.path]])
        warning == <<Warning("Could not process YAML file", f.path)>>
    IN  IF ReadRaises(f) # "none"
        THEN [documents |-> KeptOnException(documents0), log |-> warning]
        ELSE IF YamlErrorIn(f.text)
        THEN [documents |-> KeptOnException(documents1), log |-> warning]
        ELSE LoaderDocsFrom(documents1, SafeLoadAll(f.text), 1, f.path)

(***************************************************************************)
(* data_loader.py: DataLoader.  File names and paths are sequences of      *)
(* characters.                                                             *)
(***************************************************************************)
\* config.ALLOWED_EXTENSIONS
ALLOWED_EXTENSIONS ==
    {<<".", "p", "y">>, <<".", "s", "q", "l">>, <<".", "m", "d">>,
     <<".", "j", "s", "o", "n">>, <<".", "y", "a", "m", "l">>}

\* the keys of self.dispatch
DispatchKeys ==
    {<<".", "j", "s", "o", "n">>, <<".", "y", "a", "m", "l">>,
     <<".", "s", "q", "l">>, <<".", "p", "y">>}

\* str.endswith
EndsWith(s, suffix) ==
    /\ Len(suffix) <= Len(s)
    /\ SubSeq(s, Len(s) - Len(suffix) + 1, Len(s)) = suffix

\* the place of the last c in s, 0 when there is none
LastIndex(s, c) ==
    IF \E i \in 1..Len(s) : s[i] = c
    THEN CHOOSE i \in 1..Len(s) : s[i] = c /\ \A j \in (i + 1)..Len(s) : s[j] # c
    ELSE 0

\* os.path.splitext(p)[1]: from the last dot of the last component on,
\* unless only dots stand before it in that component
SplitExt(p) ==
    LET sepIndex == LastIndex(p, "/")
        dotIndex == LastIndex(p, ".")
    IN  IF dotIndex > sepIndex /\ \E i \in (sepIndex + 1)..(dotIndex - 1) : p[i] # "."
        THEN SubSeq(p, dotIndex, Len(p))
        ELSE <<>>

\* any(file.endswith(ext) for ext in config.ALLOWED_EXTENSIONS)
Allowed(name) == \E ext \in ALLOWED_EXTENSIONS : EndsWith(name, ext)

\* os.path.join(root, file)
PathJoin(root, name) == root \o <<"/">> \o name

\* self.dispatch.get(file_extension), "generic" for the else branch
Handler(file_path) ==
    IF SplitExt(file_path) \in DispatchKeys THEN SplitExt(file_path) ELSE <<"generic">>

\* _load_and_split_documents
LoadAndSplitDocuments(f) ==
    LET file_extension == SplitExt(f.path)
    IN  CASE file_extension = <<".", "j", "s", "o", "n">> -> JsonProcess(f, <<>>)
          [] file_extension = <<".", "y", "a", "m", "l">> -> LoaderYamlProcess(f, <<>>)
          [] file_extension = <<".", "s", "q", "l">> -> SqlProcess(f, <<>>)
          [] file_extension = <<".", "p", "y">> -> PythonProcess(f, <<>>)
          [] OTHER -> GenericChunks(f, <<>>)

\* all_documents = docs in place of all_documents.extend(docs)
Assign(list, docs) == docs

\* all_documents.extend(docs)
Extend(list, docs) == list \o docs

(***************************************************************************)
(* The repositories the walk is run on: up to MaxFiles files, listed in    *)
(* the order of os.walk, each with a name, what reading it does and its    *)
(* content.                                                                *)
(***************************************************************************)
repo_path == <<"r">>

\* the content is kept with what it is written in
Named(name, access, format, text) ==
    [name |-> name, access |-> access, text |-> [t |-> format, v |-> text]]

WalkEntries ==
    {Named(<<"a", ".", "p", "y">>, "ok",
           "py", [syntax_ok |-> TRUE, nodes |-> <<Import(<<"re">>), FunctionDef("f", "")>>]),
     Named(<<"a", ".", "p", "y">>, "ok", "py", [syntax_ok |-> FALSE, nodes |-> <<>>]),
     Named(<<".", "p", "y">>, "ok", "text", <<"w">>),
     Named(<<"a", ".", "P", "Y">>, "ok", "text", <<"w">>),
     Named(<<"a", ".", "m", "d">>, "ok", "text", <<"w", " ">>),
     Named(<<"a", ".", "m", "d">>, "open_error", "text", <<"w">>),
     Named(<<"a", ".", "t", "x", "t">>, "ok", "text", <<"w">>),
     Named(<<"a", ".", "y", "a", "m", "l">>, "ok",
           "yaml", <<DagDoc(PyDict(Entry("dag_id", Word("a"))), TwoTasks,
                    Entry("execution", PyList(<<Chain(AtoB)>>)))>>),
     Named(<<"a", ".", "y", "a", "m", "l">>, "ok",
           "yaml", <<DagDoc(PyDict(Entry("dag_id", Word("b"))),
                    Entry("tasks", PyDict(<<<<Word("a"), EmptyDict>>, <<Word("b"), PyNone>>>>)),
                    Absent)>>),
     Named(<<"a", ".", "y", "a", "m", "l">>, "decode_error", "yaml", <<>>),
     Named(<<"a", ".", "s", "q", "l">>, "ok", "text", <<Marker, "\n", "t1">>),
     Named(<<"a", ".", "s", "q", "l">>, "ok", "text", <<"bad">>),
     Named(<<"a", ".", "j", "s", "o", "n">>, "ok",
           "json", [valid |-> TRUE,
            data |-> PyDict(SchemaAndTable
                            \o Entry("column_types", PyDict(Entry("c1", EmptyDict))))]),
     Named(<<"a", ".", "j", "s", "o", "n">>, "ok", "json", [valid |-> FALSE, data |-> PyNone])}

WalkTrees(n) == SeqsUpTo(WalkEntries, n)

\* the file at a place of the tree, as the dispatcher is handed it
FileAt(place) ==
    [path |-> PathJoin(repo_path, tree[place].name),
     ext |-> SplitExt(PathJoin(repo_path, tree[place].name)),
     access |-> tree[place].access,
     text |-> tree[place].text.v]

WalkInit ==
    /\ tree \in WalkTrees(MaxFiles)
    /\ index = 1
    /\ dispatched = <<>>
    /\ all_documents = <<>>
    /\ file = NoFile
    /\ documents = <<>>
    /\ log = <<>>
    /\ pc = "walking"
    /\ earlier = NotCalled
    /\ flowInput = PyNone
    /\ flowResult = NotCalled

\* one turn of the loop on a file that passes the extension test
DispatchFile ==
    /\ pc = "walking"
    /\ index <= Len(tree)
    /\ Allowed(tree[index].name)
    /\ LET docs == LoadAndSplitDocuments(FileAt(index))
       IN  /\ all_documents' =
                 IF docs.documents # <<>> THEN Extend(all_documents, docs.documents)
                 ELSE all_documents
           /\ log' = log \o docs.log
    /\ dispatched' = Append(dispatched, [place |-> index, handler |-> Handler(FileAt(index).path)])
    /\ index' = index + 1
    /\ UNCHANGED <<tree, file, documents, pc, earlier, flowInput, flowResult>>

\* one turn of the loop on a file that fails the extension test
SkipFile ==
    /\ pc = "walking"
    /\ index <= Len(tree)
    /\ ~Allowed(tree[index].name)
    /\ index' = index + 1
    /\ UNCHANGED <<tree, dispatched, all_documents, file, documents, log, pc, earlier,
                   flowInput, flowResult>>

\* the walk is over: the count is printed and all_documents returned
ReturnAllDocuments ==
    /\ pc = "walking"
    /\ index > Len(tree)
    /\ pc' = "done"
    /\ log' = Append(log, [message |-> "Found and processed document chunks",
                           count |-> Len(all_documents)])
    /\ UNCHANGED <<tree, index, dispatched, all_documents, file, documents, earlier,
                   flowInput, flowResult>>

WalkNext ==
    \/ DispatchFile
    \/ SkipFile
    \/ ReturnAllDocuments

SpecWalk == WalkInit /\ [][WalkNext]_vars

(***************************************************************************)
(* What is read off the returned documents of a workflow file.             *)
(***************************************************************************)
Returned == pc = "returned"

Kind(d) ==
    IF "task_name" \in DOMAIN d.metadata THEN "task"
    ELSE IF "dag_id" \in DOMAIN d.metadata THEN "summary"
    ELSE "raw"

Label(d) ==
    CASE Kind(d) = "task" ->
            [kind |-> "task", dag_id |-> d.metadata.dag_id, task_name |-> d.metadata.task_name]
      [] Kind(d) = "summary" ->
            [kind |-> "summary", dag_id |-> d.metadata.dag_id, task_name |-> PyNone]
      [] OTHER -> [kind |-> "raw", dag_id |-> PyNone, task_name |-> PyNone]

Labels(docs) == [i \in 1..Len(docs) |-> Label(docs[i])]

\* the sub-documents of the file, when the stream parses
Parsed == SafeLoadAll(file.text)
Parses == file.access = "ok" /\ ~YamlErrorIn(file.text)

TasksOf(doc) == Get(doc, Key("tasks"), EmptyDict)
NumTasks(doc) == IF IsDict(TasksOf(doc)) THEN Len(TasksOf(doc).v) ELSE 0
DagIdOf(doc) == Get(Get(doc, Key("dag"), EmptyDict), Key("dag_id"), Key("N/A"))

\* the first DAG sub-document whose extraction raises, Len + 1 when none does
FirstRaise(vals) ==
    LET bad == {k \in 1..Len(vals) : IsDagDoc(vals[k]) /\ DagDocRaises(vals[k])}
    IN  IF bad = {} THEN Len(vals) + 1 ELSE CHOOSE k \in bad : \A j \in bad : k <= j

\* summary, then the tasks in mapping order
GroupLabels(doc) ==
    <<[kind |-> "summary", dag_id |-> DagIdOf(doc), task_name |-> PyNone]>>
    \o [i \in 1..NumTasks(doc) |->
          [kind |-> "task", dag_id |-> DagIdOf(doc), task_name |-> TasksOf(doc).v[i][1]]]

\* the groups of the DAG sub-documents k..last, in stream order
RECURSIVE GroupsFrom(_, _, _)
GroupsFrom(vals, k, last) ==
    IF k > last THEN <<>>
    ELSE IF IsDagDoc(vals[k]) THEN GroupLabels(vals[k]) \o GroupsFrom(vals, k + 1, last)
    ELSE GroupsFrom(vals, k + 1, last)

RECURSIVE CountFrom(_, _, _)
CountFrom(vals, k, last) ==
    IF k > last THEN 0
    ELSE (IF IsDagDoc(vals[k]) THEN 1 + NumTasks(vals[k]) ELSE 0) + CountFrom(vals, k + 1, last)

RawLabel == [kind |-> "raw", dag_id |-> PyNone, task_name |-> PyNone]

DocIds(docs) == [i \in 1..Len(docs) |-> docs[i].metadata.doc_id]

\* C3: doc-id uniqueness.  The doc_id values of the documents one process
\* call returns for a workflow file are pairwise distinct.
C3_DocIdsDistinct ==
    Returned =>
        \A i \in 1..Len(documents), j \in 1..Len(documents) :
            i # j => DocIds(documents)[i] # DocIds(documents)[j]

HasClause(d, opening) == \E i \in 1..Len(d.page_content) : d.page_content[i] = opening

\* the names the clause lists: what stands between its opening and its "."
ClauseText(d, opening) ==
    LET text == d.page_content
        i == CHOOSE x \in 1..Len(text) : text[x] = opening
        j == CHOOSE x \in (i + 1)..Len(text) :
                /\ text[x] = "."
                /\ \A y \in (i + 1)..(x - 1) : text[y] # "."
    IN  SubSeq(text, i + 1, j - 1)

\* the place of sub-document k's summary in the output
GroupStart(vals, k) == 1 + CountFrom(vals, 1, k - 1) + 1

ClauseAsClaimed(d, name, adj, opening) ==
    /\ HasClause(d, opening) <=> (IsStr(name) /\ name.v \in AdjKeys(adj))
    /\ HasClause(d, opening) =>
          /\ AdjGet(adj, name.v) # <<>>
          /\ ClauseText(d, opening) = Join(AdjGet(adj, name.v), <<",", " ">>)

\* C6: a task document has the "runs after" clause exactly when its task
\* name is a key of the upstream adjacency of its own sub-document's
\* execution specification, and the clause lists those upstream names
\* joined by ", "; the same for "runs before" and downstream.  A task
\* without neighbours on a side has no clause for it, and the execution
\* specification of another sub-document contributes nothing.
C6_DependencyClauses ==
    (Returned /\ Parses) =>
        \A k \in 1..(FirstRaise(Parsed) - 1) :
            IsDagDoc(Parsed[k]) =>
                LET deps == ParseExecutionFlow(
                                Get(Parsed[k], Key("execution"), PyList(<<>>)))
                IN  \A j \in 1..NumTasks(Parsed[k]) :
                        LET d == documents[GroupStart(Parsed, k) + j]
                            name == TasksOf(Parsed[k]).v[j][1]
                        IN  /\ d.metadata.task_name = name
                            /\ ClauseAsClaimed(d, name, deps.upstream, RunsAfter)
                            /\ ClauseAsClaimed(d, name, deps.downstream, RunsBefore)

\* a task between two others carries both clauses, and a task of the next
\* sub-document, which has no execution specification, carries none
C6_Witness ==
    /\ Returned /\ Parses
    /\ \E i \in 1..Len(documents) :
          /\ Kind(documents[i]) = "task"
          /\ HasClause(documents[i], RunsAfter)
          /\ HasClause(documents[i], RunsBefore)
    /\ \E i \in 1..Len(documents) :
          /\ Kind(documents[i]) = "task"
          /\ documents[i].metadata.dag_id = Word("b")
          /\ documents[i].metadata.task_name = Word("b")
          /\ ~HasClause(documents[i], RunsAfter)

\* C7: a DAG sub-document whose extraction raises does not keep the later
\* well-formed DAG sub-documents of the file from their summary and task
\* documents.
C7_LaterDocsStillExtracted ==
    (Returned /\ Parses) =>
        \A k \in 1..Len(Parsed) :
            (IsDagDoc(Parsed[k]) /\ ~DagDocRaises(Parsed[k])) =>
                \E i \in 1..Len(documents) :
                    /\ Label(documents[i]).kind = "summary"
                    /\ SubSeq(Labels(documents), i, i + NumTasks(Parsed[k]))
                            = GroupLabels(Parsed[k])

\* C8 as stated: a file that cannot be opened or read yields no document
\* and the warning "Could not read file".
C8_UnreadableReportedAsCouldNotRead ==
    (Returned /\ file.access # "ok") =>
        /\ documents = <<>>
        /\ log = <<Warning("Could not read file", file.path)>>

\* C8, amended: a file that cannot be opened or read yields no document and
\* exactly one warning, and nothing is parsed or built: the warning is
\* "Could not read file" when open or read fails with an I/O error, and
\* "Unexpected error processing YAML file" when the bytes read are not UTF-8.
C8_UnreadableYieldsNothing ==
    (Returned /\ file.access # "ok") =>
        /\ documents = <<>>
        /\ file.access \in {"open_error", "read_error"} =>
                log = <<Warning("Could not read file", file.path)>>
        /\ file.access = "decode_error" =>
                log = <<Warning("Unexpected error processing YAML file", file.path)>>

\* a path that cannot be opened, whose content would have given documents
C8_Witness ==
    /\ Returned
    /\ file.access = "open_error"
    /\ file.text # <<>> /\ ~YamlErrorIn(file.text)
    /\ documents = <<>>

\* C9: when YAML parsing fails anywhere in the stream of a readable file,
\* the output is the raw document alone, with the content unchanged, and
\* the one warning is "Invalid YAML format".
C9_ParseFailureGivesRawOnly ==
    (/\ Returned
     /\ file.access = "ok"
     /\ \E i \in 1..Len(file.text) : ~file.text[i].wellformed) =>
        /\ Len(documents) = 1
        /\ Kind(documents[1]) = "raw"
        /\ documents[1].page_content = file.text
        /\ log = <<Warning("Invalid YAML format", file.path)>>

\* the malformed sub-document follows a well-formed DAG sub-document
C9_Witness ==
    /\ Returned /\ file.access = "ok"
    /\ Len(file.text) = 2
    /\ file.text[1].wellformed /\ IsDagDoc(file.text[1].value)
    /\ ~DagDocRaises(file.text[1].value)
    /\ ~file.text[2].wellformed
    /\ Len(documents) = 1

Extractors == {".yaml", ".json", ".sql", ".py"}

IsRawDocument(d, f) ==
    /\ DOMAIN d.metadata \subseteq {"source", "doc_id"}
    /\ d.metadata.source = f.path

C10_SameFileSameDocuments ==
    (Returned /\ earlier.state = "returned"
        /\ earlier.file.ext = file.ext /\ earlier.file = file) =>
        /\ documents = earlier.documents
        /\ log = earlier.log

\* the first file of the run is processed again after another file
C10_Witness ==
    /\ Returned /\ earlier.state = "returned"
    /\ earlier.file.ext = file.ext /\ earlier.file = file
    /\ earlier.others
    /\ Len(documents) = 7

\* how many times x occurs in the list
Count(x, list) == Cardinality({i \in 1..Len(list) : list[i] = x})

FlowTasks(deps) ==
    AdjKeys(deps.upstream) \cup AdjKeys(deps.downstream)
    \cup UNION {{deps.upstream[i][2][j] : j \in 1..Len(deps.upstream[i][2])} :
                    i \in 1..Len(deps.upstream)}
    \cup UNION {{deps.downstream[i][2][j] : j \in 1..Len(deps.downstream[i][2])} :
                    i \in 1..Len(deps.downstream)}

\* C4: dependency symmetry.  After _parse_execution_flow returns, task A
\* occurs in upstream[B] exactly as many times as B occurs in downstream[A],
\* for all tasks A and B, so A is upstream of B iff B is downstream of A.
C4_DependencySymmetry ==
    flowResult.state = "returned" =>
        LET deps == flowResult.deps
        IN  \A A \in FlowTasks(deps), B \in FlowTasks(deps) :
                Count(A, AdjGet(deps.upstream, B)) = Count(B, AdjGet(deps.downstream, A))

\* two chains record the same edge twice, and it is mirrored twice
C4_Witness ==
    /\ flowResult.state = "returned"
    /\ \E A \in FlowTasks(flowResult.deps), B \in FlowTasks(flowResult.deps) :
          /\ A # B
          /\ Count(A, AdjGet(flowResult.deps.upstream, B)) = 2
          /\ Count(B, AdjGet(flowResult.deps.downstream, A)) = 2

(***************************************************************************)
(* What is read off a repository walk.                                     *)
(***************************************************************************)
WalkDone == pc = "done"

\* the places from k to last whose file passes the extension test, in walk
\* order
RECURSIVE AllowedPlaces(_, _)
AllowedPlaces(k, last) ==
    IF k > last THEN <<>>
    ELSE (IF Allowed(tree[k].name) THEN <<k>> ELSE <<>>) \o AllowedPlaces(k + 1, last)

\* the documents of the files at the given places, one file after the other
RECURSIVE DocumentsOf(_)
DocumentsOf(places) ==
    IF places = <<>> THEN <<>>
    ELSE LoadAndSplitDocuments(FileAt(Head(places))).documents \o DocumentsOf(Tail(places))

\* two documents are the same: same source, same metadata fields, same value
SameDocument(a, b) ==
    /\ a.metadata.source = b.metadata.source
    /\ DOMAIN a.metadata = DOMAIN b.metadata
    /\ a = b

SameDocuments(as, bs) ==
    /\ Len(as) = Len(bs)
    /\ \A i \in 1..Len(as) : SameDocument(as[i], bs[i])

\* the file at a place fails in some step of its handling
Fails(place) ==
    \/ tree[place].access # "ok"
    \/ tree[place].text.t = "py" /\ ~tree[place].text.v.syntax_ok
    \/ tree[place].text.t = "json" /\ ~tree[place].text.v.valid
    \/ tree[place].text.t = "yaml" /\ LoadAndSplitDocuments(FileAt(place)).log # <<>>

HandlersAt(place) ==
    {dispatched[i].handler : i \in {j \in 1..Len(dispatched) : dispatched[j].place = place}}

\* C12: dispatch by extension.  Every file the walk has looked at got
\* exactly one handling, chosen by the suffix of its name: the extractor of
\* .json, .yaml, .sql or .py for a name that ends in it, the generic chunker
\* for a name that ends in .md, none for a name with no allowed extension;
\* and the extension the dispatcher finds is the allowed suffix the walk
\* matched.
C12_DispatchBySuffix ==
    \A place \in 1..(index - 1) :
        LET name == tree[place].name
        IN  /\ \A ext \in DispatchKeys :
                  EndsWith(name, ext) => HandlersAt(place) = {ext}
            /\ EndsWith(name, <<".", "m", "d">>) => HandlersAt(place) = {<<"generic">>}
            /\ ~Allowed(name) => HandlersAt(place) = {}
            /\ Allowed(name) => EndsWith(name, SplitExt(FileAt(place).path))
                                /\ SplitExt(FileAt(place).path) \in ALLOWED_EXTENSIONS

(***************************************************************************)
(* What is read off the returned documents of a tabular-schema file.       *)
(***************************************************************************)
\* the call on a readable JSON file whose content parses has returned
JsonParsed == Returned /\ file.ext = ".json" /\ file.access = "ok" /\ file.text.valid

\* the parsed content is a mapping that has both identifying keys
HasSchemaAndTable(data) ==
    IsDict(data) /\ HasKey(data, Key("schema")) /\ HasKey(data, Key("table"))

\* the entries of the column mapping, none when the key is absent
ColumnEntries(data) == Get(data, Key("column_types"), EmptyDict).v

\* the column mapping is a mapping
HasColumnMapping(data) == IsDict(Get(data, Key("column_types"), EmptyDict))

IsColumnDocument(d) == "column" \in DOMAIN d.metadata

\* the descriptor a column document was written from
DescriptorOf(d, data) == Get(Get(data, Key("column_types"), EmptyDict), d.metadata.column, EmptyDict)

\* the classification field is present and not null
IsTagged(col_data) == HasKey(col_data, Key(PiiLevel)) /\ Get(col_data, Key(PiiLevel), PyNone) # PyNone

SensitivityPhrases == {ImpactLevelOf, "PII", "high_sensibility", PiiLevel}

Mentions(text, phrases) == \E j \in 1..Len(text) : text[j] \in phrases

\* sub stands somewhere in text
Contains(text, sub) ==
    \E j \in 1..(Len(text) - Len(sub) + 1) : SubSeq(text, j, j + Len(sub) - 1) = sub

\* C13: PII non-leakage.  The text of the document of a column whose
\* classification field is null or absent holds no sensitivity phrase.
C13_NoSensitivityPhraseWhenUntagged ==
    JsonParsed =>
        \A i \in 1..Len(documents) :
            (IsColumnDocument(documents[i])
                /\ ~IsTagged(DescriptorOf(documents[i], file.text.data))) =>
                ~Mentions(documents[i].page_content, SensitivityPhrases)

\* a column with a null classification beside a tagged one, both written
C13_Witness ==
    /\ JsonParsed /\ HasSchemaAndTable(file.text.data)
    /\ Len(documents) = 4
    /\ IsColumnDocument(documents[3]) /\ IsColumnDocument(documents[4])
    /\ HasKey(DescriptorOf(documents[3], file.text.data), Key(PiiLevel))
    /\ ~IsTagged(DescriptorOf(documents[3], file.text.data))
    /\ IsTagged(DescriptorOf(documents[4], file.text.data))

IsTableSummary(d) ==
    /\ DOMAIN d.metadata = {"source", "table", "schema"}
    /\ d.page_content[1] = "This document describes the table '"

Described(columns) ==
    IF \E k \in 1..Len(columns) : ~IsDict(columns[k][2])
    THEN SubSeq(columns, 1,
                (CHOOSE k \in 1..Len(columns) :
                    ~IsDict(columns[k][2]) /\ \A j \in 1..(k - 1) : IsDict(columns[j][2])) - 1)
    ELSE columns

QualifiedName(data) ==
    Format(Get(data, Key("schema"), PyNone)) \o <<".">> \o Format(Get(data, Key("table"), PyNone))

\* the values of a list joined by ', '
Listed(list) == Join([i \in 1..Len(list.v) |-> Format(list.v[i])], <<",", " ">>)

\* C15: the table summary names the qualified table '<schema>.<table>',
\* gives the description, lists the primary-key columns and the source
\* locations when they are present, and carries the qualified name in its
\* metadata field table and the schema name in its metadata field schema.
C15_SummaryNamesQualifiedTable ==
    (JsonParsed /\ HasSchemaAndTable(file.text.data)) =>
        LET data == file.text.data
            summary == documents[2]
        IN  /\ Len(documents) >= 2
            /\ Contains(summary.page_content, QualifiedName(data))
            /\ Contains(summary.page_content,
                        Format(Get(data, Key("table_description"), Key("N/A"))))
            /\ HasKey(data, Key("table_id")) =>
                  Contains(summary.page_content, Listed(Get(data, Key("table_id"), PyList(<<>>))))
            /\ HasKey(data, Key("source")) =>
                  Contains(summary.page_content, Listed(Get(data, Key("source"), PyList(<<>>))))
            /\ summary.metadata.table = QualifiedName(data)
            /\ summary.metadata.schema = Format(Get(data, Key("schema"), PyNone))

\* C16: a column document names the table, the column, its declared type
\* and its description, mentions the max length exactly when one is
\* declared and is not "None", mentions the classification exactly when
\* the field is present and not null, and carries column in its metadata
\* beside the fields of the table summary.
C16_ColumnTextNamesTypeLengthAndTag ==
    JsonParsed =>
        \A i \in 1..Len(documents) :
            IsColumnDocument(documents[i]) =>
                LET col_data == DescriptorOf(documents[i], file.text.data)
                    text == documents[i].page_content
                    max_length == Get(col_data, Key("max_length"), Key("None"))
                IN  /\ Contains(text, Format(documents[i].metadata.column))
                    /\ Contains(text, Format(Get(col_data, Key("description"), Key("N/A"))))
                    /\ HasKey(col_data, Key("column_type")) =>
                          Contains(text, Format(Get(col_data, Key("column_type"), PyNone)))
                    /\ (max_length # Key("None")) <=> Contains(text, Format(max_length))
                    /\ IsTagged(col_data) <=> Mentions(text, SensitivityPhrases)
                    /\ DOMAIN documents[i].metadata = {"source", "table", "schema", "column"}

SqlRead == Returned /\ file.ext = ".sql" /\ file.access = "ok"

\* the cleaned text of the script
Cleaned == Strip(RemoveMarker(file.text))

\* the documents that show which body the parser was handed
ShowsBody(body) ==
    IF ParserRaises(body) THEN Len(documents) = 1
    ELSE /\ Len(documents) = 2
         /\ documents[2].page_content =
                <<"This SQL script reads from the following tables: ">>
                \o (IF ParserTables(body) = <<>> THEN <<"none">>
                    ELSE Join(ParserTables(body), <<",", " ">>))
                \o <<".">>

LeadingMarkerRemoved(text) ==
    IF text # <<>> /\ text[1] = Marker THEN Tail(text) ELSE text

\* C21: the raw document of a readable query script holds the content with
\* the marker comment removed only when it is the leading line, and with
\* leading and trailing white space trimmed; an occurrence of the marker
\* further down the script is kept.
C21_OnlyLeadingMarkerRemoved ==
    SqlRead =>
        /\ documents # <<>>
        /\ documents[1].page_content = Strip(LeadingMarkerRemoved(file.text))

(***************************************************************************)
(* What is read off the returned documents of a source-code file.          *)
(***************************************************************************)
PythonRead == Returned /\ file.ext = ".py" /\ file.access = "ok"
PythonParsed == PythonRead /\ file.text.syntax_ok

\* the places of the function definition nodes (ast.FunctionDef) in the
\* order of the walk
FunctionDefPlaces ==
    LET nodes == file.text.nodes
    IN  SelectSeq([i \in 1..Len(nodes) |-> i], LAMBDA i : nodes[i].type = "FunctionDef")

NamedModules ==
    LET nodes == file.text.nodes
    IN  UNION {NodeNames(nodes[i]) :
                  i \in {j \in 1..Len(nodes) : nodes[j].type \in {"Import", "ImportFrom"}}}

\* the place of a module name in the order of sorted()
PlaceInOrder(name) == CHOOSE i \in 1..Len(ModuleOrder) : ModuleOrder[i] = name

IsImportSummary(d) ==
    "content_type" \in DOMAIN d.metadata /\ d.metadata.content_type = "python_summary"

\* C23: when a source-code file parses, the second document is the import
\* summary: it names every module of an import or from-import statement of
\* the file exactly once, in sorted order, joined by ', ', and is tagged
\* content_type = 'python_summary'; there is exactly one such document,
\* also when the file imports nothing.
C23_ImportSummarySecond ==
    PythonParsed =>
        /\ Len(documents) >= 2
        /\ documents[2].metadata = [source |-> file.path, content_type |-> "python_summary"]
        /\ {i \in 1..Len(documents) : IsImportSummary(documents[i])} = {2}
        /\ LET text == documents[2].page_content
               listed == SubSeq(text, 2, Len(text) - 1)
               n == Cardinality(NamedModules)
               name(k) == listed[3 * k - 2]
           IN  /\ Len(text) >= 2
               /\ text[1] = "This Python script imports the following libraries: "
               /\ text[Len(text)] = "."
               /\ Len(listed) = (IF n = 0 THEN 0 ELSE 3 * n - 2)
               /\ {name(k) : k \in 1..n} = NamedModules
               /\ \A k \in 1..(n - 1) :
                     /\ listed[3 * k - 1] = "," /\ listed[3 * k] = " "
                     /\ PlaceInOrder(name(k)) < PlaceInOrder(name(k + 1))

\* a file that imports re, then os by a from-import and os again by an
\* import statement: the summary says 'os, re'
C23_Witness ==
    /\ PythonParsed
    /\ \E i, j \in 1..Len(file.text.nodes) :
          /\ file.text.nodes[i].type = "ImportFrom"
          /\ file.text.nodes[j].type = "Import"
          /\ "os" \in NodeNames(file.text.nodes[i]) \cap NodeNames(file.text.nodes[j])
    /\ file.text.nodes[1] = Import(<<"re">>)
    /\ documents[2].page_content =
          <<"This Python script imports the following libraries: ",
            "os", ",", " ", "re", ".">>

ShapedAsDag(doc) ==
    LET dag == Get(doc, Key("dag"), PyNone)
        tasks == Get(doc, Key("tasks"), PyNone)
        execution == Get(doc, Key("execution"), PyNone)
    IN  /\ IsDict(dag)
        /\ HasKey(dag, Key("default_args")) => IsDict(Get(dag, Key("default_args"), PyNone))
        /\ HasKey(doc, Key("tasks")) =>
              /\ IsDict(tasks)
              /\ \A i \in 1..Len(tasks.v) : IsDict(tasks.v[i][2])
        /\ IsList(execution) => \A i \in 1..Len(execution.v) : IsStr(execution.v[i])

\* the field as the text shows it and as the metadata holds it: the value
\* when the key is there, the default when it is absent
FieldOr(d, key, default) == IF HasKey(d, Key(key)) THEN Get(d, Key(key), PyNone) ELSE Word(default)
ShownOr(d, key, default) == Format(FieldOr(d, key, default))

IsPrefix(s, t) == Len(s) <= Len(t) /\ SubSeq(t, 1, Len(s)) = s

SummaryWithDefaults(d, doc) ==
    LET dag == Get(doc, Key("dag"), PyNone)
        args == IF HasKey(dag, Key("default_args"))
                THEN Get(dag, Key("default_args"), PyNone) ELSE EmptyDict
    IN  /\ d.page_content =
              <<"This document describes the DAG configuration with ID '">>
              \o ShownOr(dag, "dag_id", "N/A")
              \o <<"'. The owner is '">> \o ShownOr(args, "owner", "N/A")
              \o <<"', it runs on schedule: '">> \o ShownOr(dag, "schedule_interval", "N/A")
              \o <<"', and its description is: '">>
              \o ShownOr(dag, "description", "No description provided.") \o <<"'.">>
        /\ d.metadata.dag_id = FieldOr(dag, "dag_id", "N/A")
        /\ d.metadata.owner = FieldOr(args, "owner", "N/A")

TaskWithDefaults(d, doc, i) ==
    LET dag == Get(doc, Key("dag"), PyNone)
        name == Get(doc, Key("tasks"), PyNone).v[i][1]
        details == Get(doc, Key("tasks"), PyNone).v[i][2]
    IN  /\ IsPrefix(<<"The DAG '">> \o ShownOr(dag, "dag_id", "N/A")
                    \o <<"' contains a task named '">> \o Format(name)
                    \o <<"'. This task uses the '">> \o ShownOr(details, "operator", "unknown")
                    \o <<"' operator and runs the script '">>
                    \o ShownOr(details, "file", "not specified") \o <<"'.">>,
                    d.page_content)
        /\ d.metadata.operator = FieldOr(details, "operator", "unknown")

IsYamlPlace(place) == SplitExt(FileAt(place).path) = <<".", "y", "a", "m", "l">>

\* the documents of the files at the given places when a .yaml file is
\* given to the extractor of processor/yaml_processor.py
RECURSIVE DocumentsWithDocIdOf(_)
DocumentsWithDocIdOf(places) ==
    IF places = <<>> THEN <<>>
    ELSE (IF IsYamlPlace(Head(places))
          THEN YamlProcess(FileAt(Head(places)), <<>>).documents
          ELSE LoadAndSplitDocuments(FileAt(Head(places))).documents)
         \o DocumentsWithDocIdOf(Tail(places))

\* C26: for a .yaml file the walk finds, the documents
\* load_repository_documents returns are those of the workflow extractor
\* with the dependency resolver (raw, summary and task documents with a
\* doc_id, task documents with the upstream and downstream clauses): what
\* YamlProcessor.process of processor/yaml_processor.py returns for the
\* same file.
C26_WalkUsesExtractorWithDocId ==
    WalkDone =>
        SameDocuments(all_documents, DocumentsWithDocIdOf(AllowedPlaces(1, Len(tree))))

(***************************************************************************)
(* The two workflow extractors on the same file: documents is what the     *)
(* extractor of processor/yaml_processor.py returned, SimplerDocuments     *)
(* what the one of data_loader.py returns.                                 *)
(***************************************************************************)
SimplerDocuments == LoaderYamlProcess(file, <<>>).documents

IsFlowDocument(d) ==
    /\ "dag_id" \in DOMAIN d.metadata
    /\ "task_name" \notin DOMAIN d.metadata
    /\ d.page_content[1] = "The execution flow for DAG '"

\* the raw, summary and task documents of the simpler extractor
SimplerCore == SelectSeq(SimplerDocuments, LAMBDA d : ~IsFlowDocument(d))

\* r says what s says: the text of s, and more after it or nothing, and
\* every metadata field of s with its value
Counterpart(s, r) ==
    /\ IsPrefix(s.page_content, r.page_content)
    /\ DOMAIN s.metadata \subseteq DOMAIN r.metadata
    /\ \A key \in DOMAIN s.metadata : s.metadata[key] = r.metadata[key]

\* the execution specification is there and not empty
HasExecution(doc) ==
    /\ HasKey(doc, Key("execution"))
    /\ LET execution == Get(doc, Key("execution"), PyNone)
       IN  execution \notin {PyNone, PyList(<<>>), PyStr(<<>>), EmptyDict}

NoneRaises == file.access = "ok" /\ Parses /\ FirstRaise(Parsed) > Len(Parsed)

IsListOfStrings(x) == IsList(x) /\ \A k \in 1..Len(x.v) : IsStr(x.v[k])

\* the pairs <<s(i), s(i+1)>> of one chain, in chain order
PairsOfChain(parts) == [i \in 1..(Len(parts) - 1) |-> <<parts[i], parts[i + 1]>>]

\* the pairs of the chains k.. of the list, chain after chain
RECURSIVE PairsFrom(_, _)
PairsFrom(flows, k) ==
    IF k > Len(flows) THEN <<>>
    ELSE PairsOfChain(ChainParts(flows[k].v)) \o PairsFrom(flows, k + 1)

\* the other ends of the pairs that have task at the given end
OtherEnds(pairs, task, end) ==
    LET mine == SelectSeq(pairs, LAMBDA pair : pair[end] = task)
    IN  [i \in 1..Len(mine) |-> mine[i][3 - end]]

\* C28: _parse_execution_flow records exactly the adjacent pairs of each
\* chain.  For a list of chain strings, with every chain split on '>>' into
\* trimmed segments s1..sn, downstream[s] lists the right neighbours of s
\* and upstream[s] its left neighbours, one entry for every adjacent pair,
\* in the order of the chains and of the pairs within a chain: nothing is
\* deduplicated and no transitive edge is added, a chain of one segment
\* adds nothing, and the call returns.  An argument that is no list gives
\* the empty graph.
C28_ExactlyAdjacentPairs ==
    flowResult # NotCalled =>
        /\ IsListOfStrings(flowInput) =>
              /\ flowResult.state = "returned"
              /\ LET pairs == PairsFrom(flowInput.v, 1)
                     deps == flowResult.deps
                 IN  /\ AdjKeys(deps.downstream) = {pairs[i][1] : i \in 1..Len(pairs)}
                     /\ AdjKeys(deps.upstream) = {pairs[i][2] : i \in 1..Len(pairs)}
                     /\ \A s \in AdjKeys(deps.downstream) :
                           AdjGet(deps.downstream, s) = OtherEnds(pairs, s, 1)
                     /\ \A s \in AdjKeys(deps.upstream) :
                           AdjGet(deps.upstream, s) = OtherEnds(pairs, s, 2)
        /\ ~IsList(flowInput) =>
              /\ flowResult.state = "returned"
              /\ flowResult.deps = EmptyDeps

\* the chain a>>b>>c: b is downstream of a and c of b, and a is not
\* upstream of c
C28_Witness ==
    /\ flowResult # NotCalled
    /\ flowResult.state = "returned"
    /\ flowInput = PyList(<<PyStr(<<"a", ">", ">", "b", ">", ">", "c">>)>>)
    /\ AdjGet(flowResult.deps.downstream, <<"a">>) = <<<<"b">>>>
    /\ AdjGet(flowResult.deps.upstream, <<"c">>) = <<<<"b">>>>

(***************************************************************************)
(* The body of a CREATE [TEMP] TABLE ... AS statement.                     *)
(***************************************************************************)
\* the places after the table word where the keyword AS stands
KeywordAsPlaces(s, r) ==
    {j \in (r + 2)..Len(s) : IsSpaceAt(s, r + 1) /\ Lower(s[j]) = "as"}

ParensIn(rest, a, b, paren) == Cardinality({i \in a..b : rest[i] = paren})

\* the places where the parenthesis opened at from is closed
ClosingPlaces(rest, from) ==
    {j \in (from + 1)..Len(rest) :
        /\ rest[j] = ")"
        /\ ParensIn(rest, from, j, "(") = ParensIn(rest, from, j, ")")}

\* what the parentheses that follow enclose, or all that follows
EnclosedOrRest(rest) ==
    LET from == SkipSpace(rest, 1)
    IN  IF Is(rest, from, "(") /\ ClosingPlaces(rest, from) # {}
        THEN SubSeq(rest, from + 1, Least(ClosingPlaces(rest, from)) - 1)
        ELSE SubSeq(rest, from, Len(rest))

OnlyCreateTableMatches ==
    /\ SqlRead
    /\ CreateTableMatch(Cleaned).found
    /\ ~UnloadMatch(Cleaned).found
    /\ ~CreateMviewMatch(Cleaned).found
    /\ ~CreateViewMatch(Cleaned).found

\* C29: when only the CREATE [TEMP] TABLE pattern matches, the body handed
\* to the table-name parser is the text enclosed by the parentheses that
\* follow the AS keyword of the statement, up to the parenthesis that
\* closes it, or all the text after that keyword when no parenthesis
\* follows; the AS taken is the keyword, never the letters 'as' inside the
\* table name or another identifier.
C29_BodyAfterKeywordAs ==
    OnlyCreateTableMatches =>
        LET s == Cleaned
            r == TableAt(s, CreateTableMatch(s).start)
            keywords == KeywordAsPlaces(s, r)
            body == Strip(EnclosedOrRest(SubSeq(s, Least(keywords) + 1, Len(s))))
        IN  /\ keywords # {}
            /\ SqlForParsing(s) = body
            /\ ShowsBody(body)

(***************************************************************************)
(* All or nothing of a DAG sub-document.                                   *)
(***************************************************************************)
\* the documents are the raw one and the complete groups of the DAG
\* sub-documents among the first n of the stream
IsRawAndGroupsOfPrefix(n) ==
    /\ Labels(documents) = <<RawLabel>> \o GroupsFrom(Parsed, 1, n)
    /\ \A k \in 1..n :
          IsDagDoc(Parsed[k]) =>
              /\ Kind(documents[GroupStart(Parsed, k)]) = "summary"
              /\ \A i \in 1..NumTasks(Parsed[k]) :
                    documents[GroupStart(Parsed, k) + i].metadata.task_name
                        = TasksOf(Parsed[k]).v[i][1]

====
